---- MODULE Spec2Model ----
(***************************************************************************)
(* The query-execution engine of idxs (src/src/IndexSupply.ts): the retry  *)
(* loop of create.fetch, the reconnect loop of the create.live generator,  *)
(* the retry policy shouldRetry and the backoff delay, the frame decoder   *)
(* readStream, the instance ids of the emitter                             *)
(* (src/src/internal/emitter.ts) and the shape of raw and parsed results,  *)
(* with the endpoint, the cancellation token and the consumer of the       *)
(* generator as the environment.                                           *)
(***************************************************************************)
EXTENDS Integers, Sequences, FiniteSets, TLC

(***************************************************************************)
(* Bounds of the model.                                                    *)
(***************************************************************************)
\* largest retryCount option given to a fetch call
MaxFetchRetry == 9
\* largest retryCount option given to a live call
MaxLiveRetry == 2
\* decoded arrays of result batches the endpoint delivers during one live invocation
MaxPayloads == 2
\* result batches in one decoded payload
MaxBatches == 2
\* largest retryCount option given to each of two concurrent calls
MaxPairRetry == 1
\* terminated frames in one response body
MaxFrames == 2
\* rows of one raw result given to Result.parse
MaxRows == 2
\* largest retryCount option given to a fetch call whose request is observed
MaxRequestRetry == 2
\* builders derived from one QueryBuilder.from(client), the first included
MaxBuilders == 3

(***************************************************************************)
(* Program constants.                                                      *)
(***************************************************************************)
\* 200 * 2 ** (count - 1)
BaseDelay == 200
\* Math.min(..., 30_000)
MaxDelay == 30000

\* HTTP statuses the endpoint answers with (response.ok is 200..299)
Statuses == {200, 400, 404, 408, 429, 499, 500, 503}
\* cursors the caller may supply ("none": option absent)
CallerCursors == {"none", "c0"}
\* cursors the server returns with a result batch
BatchCursors == {"c1", "c2"}

VARIABLES
  id,          \* the counter `id` of the client's emitter, shared by all its calls
  kind,        \* kind[c]: "fetch" or "live", the operation call c invokes
  options,     \* options[c]: [retryCount, cursor, signal, query, signatures] as
               \* destructured by the call; `cursor` is "none" when undefined and
               \* "object" when it is the { chainId, blockNumber } in `position`;
               \* `method` is the method of the rest `requestInit`, "none" without
  pc,          \* pc[c]: where call c is: "idle" (not started), "awaitFetch",
               \* "reading" (await reader.read()), "scanning" (readStream looks for
               \* a frame in its buffer), "yield", "sleeping", "done", "failed"
  count,       \* count[c]: the local `count`
  lastError,   \* lastError[c]: the local `lastError`
  shouldAbort, \* shouldAbort[c]: the local `shouldAbort` of live
  pending,     \* pending[c]: items of `data` the for-of loop of live has not yielded yet
  aborted,     \* aborted[c]: signal.aborted of the call's cancellation token
  served,      \* served[c]: arrays of result batches the endpoint has delivered to call c
  obs,         \* obs[c]: what the caller, the endpoint and the sink have observed of call c
  wire,        \* the response body an endpoint sends: [frames, tail, bytes]
  rs,          \* the readStream generator reading that body: its position `pc`, the
               \* bytes read so far `pos`, the bytes the decoder holds back `held`,
               \* its locals `buffer` and `lines`, the values it yielded `out`, the
               \* reasons of its reader.cancel calls `cancelled`, the error it raised
               \* `thrown` with its `cause`, and where chunks have ended `splits`
  pr,          \* one call of Result.parse: its arguments `raw` and `options`, where
               \* it is (`pc`: "called", "returned", "thrown") and what it gave
  qb,          \* one QueryBuilder.from(client): the `cursor` and `signatures` of its
               \* closure, the builders derived from it, and what the latest
               \* executed query passed to the client
  sink,        \* the emitter's handlers: `all`, the list of wrappers mitt keeps for
               \* each type, `wrappers`, the wrapper remembered for each handler,
               \* `made`, the wrappers created so far, `offed`, the <<type, handler>>
               \* pairs turned off and not registered since, and `called`, the
               \* <<type, handler>> pairs the latest emit invoked
  cq           \* one call of Connection.prepareQuery: the `sql` and `parameters` of
               \* its compiledQuery, where it is (`pc`: "called", "returned") and
               \* the `query` it returned

vars == <<id, kind, options, pc, count, lastError, shouldAbort, pending, aborted, served, obs,
          wire, rs, pr, qb, sink, cq>>

Calls == DOMAIN pc

(***************************************************************************)
(* Errors.  `at` is the number of the request during which the error was   *)
(* constructed: it tells two error objects of the same shape apart.        *)
(***************************************************************************)
NoError == [name |-> "none", status |-> 0, type |-> "", message |-> "", at |-> 0]

FetchRequestError(status, at) ==
  [name |-> "FetchRequestError", status |-> status, type |-> "", message |-> "", at |-> at]

SseError(type, at) ==
  [name |-> "SseError", status |-> 0, type |-> type, message |-> "", at |-> at]

BaseError(message, at) ==
  [name |-> "BaseError", status |-> 0, type |-> "", message |-> message, at |-> at]

\* errors constructed outside IndexSupply.ts: the AbortError of a cancelled
\* exchange, the TypeError of a failed one, the error of a failed decode
ForeignError(name, at) ==
  [name |-> name, status |-> 0, type |-> "", message |-> "", at |-> at]

Min(a, b) == IF a < b THEN a ELSE b

\* a retry policy that does not look at the type of an SseError nor at the status
ShouldRetryAny(error) == error.name \in {"SseError", "FetchRequestError"}

\* a retry policy that leaves out status 500
ShouldRetryAbove500(error) ==
  \/ error.name = "SseError" /\ error.type = "server"
  \/ /\ error.name = "FetchRequestError"
     /\ (error.status = 408 \/ error.status = 429 \/ error.status > 500)

\* a retry policy that retries every failure that is not an answer of the server
ShouldRetryUnanswered(error) ==
  \/ error.name \in {"AbortError", "TypeError"}
  \/ error.name = "SseError" /\ error.type = "server"
  \/ /\ error.name = "FetchRequestError"
     /\ (error.status = 408 \/ error.status = 429 \/ error.status >= 500)

\* a retry policy that also retries an answer without results
ShouldRetryNoResults(error) ==
  \/ error.name = "BaseError"
  \/ error.name = "SseError" /\ error.type = "server"
  \/ /\ error.name = "FetchRequestError"
     /\ (error.status = 408 \/ error.status = 429 \/ error.status >= 500)

\* shouldRetry(error)
ShouldRetry(error) ==
  \/ error.name = "SseError" /\ error.type = "server"
  \/ /\ error.name = "FetchRequestError"
     /\ (error.status = 408 \/ error.status = 429 \/ error.status >= 500)

\* Math.min(200 * 2 ** (count - 1), 30_000); 2 ** -1 is 0.5
Backoff(n) ==
  IF n = 0 THEN BaseDelay \div 2 ELSE Min(BaseDelay * 2 ^ (n - 1), MaxDelay)

\* response.ok
Ok(status) == status >= 200 /\ status <= 299

\* a loop condition that is off by one
RemainingInclusive(c) == count[c] <= options[c].retryCount

\* while (count < retryCount)
Remaining(c) == count[c] < options[c].retryCount

(***************************************************************************)
(* Results (src/unnamed/part_001, result.ts).  A value of a row is a       *)
(* record [type, v, items]: a JSON string or number with its text `v`, a   *)
(* bigint, or an array with its elements `items`.  An object built by      *)
(* assignments is the sequence of its [key, value] entries in key order.   *)
(***************************************************************************)
JsString(text) == [type |-> "string", v |-> text, items |-> <<>>]
JsNumber(text) == [type |-> "number", v |-> text, items |-> <<>>]
JsBigInt(text) == [type |-> "bigint", v |-> text, items |-> <<>>]
JsArray(items) == [type |-> "array", v |-> "", items |-> items]
\* Number(x) of a text that is no numeric literal
NaN == [type |-> "number", v |-> "NaN", items |-> <<>>]
\* what stands for the value of a decode that threw: the name of the error
Failure(name) == [type |-> "thrown", v |-> name, items |-> <<>>]
IsFailure(value) == value.type = "thrown"

\* the string a value converts to: an array joins its elements with ","
RECURSIVE Join(_)
Join(items) ==
  IF items = <<>> THEN ""
  ELSE IF Len(items) = 1 THEN items[1].v
  ELSE items[1].v \o "," \o Join(Tail(items))

ToText(value) == IF value.type = "array" THEN Join(value.items) ELSE value.v

\* the texts StringToNumber and StringToBigInt accept, and the decimal text
\* of the number they denote
IsNumeric(text) == text \in {"7", "0xab"}
Decimal(text) == IF text = "0xab" THEN "171" ELSE text

\* Number(value): never throws
ToNumber(value) ==
  IF IsNumeric(ToText(value)) THEN JsNumber(Decimal(ToText(value))) ELSE NaN

\* BigInt(value): throws a SyntaxError on a text that is no integer literal
ToBigInt(value) ==
  IF IsNumeric(ToText(value)) THEN JsBigInt(Decimal(ToText(value)))
  ELSE Failure("SyntaxError")

\* text.startsWith('0x')
StartsWith0x(text) == text \in {"0xab"}

\* a zod type: what it does to one value (`of`), applied to the value itself
\* or, for z.array(inner), to each element of an array
Rule(of, array) == [of |-> of, array |-> array]
\* standardColumnTypes[name] of a name the table does not have, and
\* signatureTypes[tableName]?.[name] of a missing table or name
NoRule == Rule("none", FALSE)

\* inner.parse(value) of a zod type that is no array
ParseScalar(of, value) ==
  CASE of = "hex" ->
         \* z.templateLiteral(['0x', z.string()])
         IF value.type = "string" /\ StartsWith0x(value.v) THEN value ELSE Failure("ZodError")
    [] of = "number"  -> IF value.type = "number" THEN value ELSE Failure("ZodError")
    [] of = "bigint"  -> IF value.type = "bigint" THEN value ELSE Failure("ZodError")
    [] of = "boolean" -> IF value.type = "boolean" THEN value ELSE Failure("ZodError")
    [] of = "string"  -> IF value.type = "string" THEN value ELSE Failure("ZodError")
    [] of = "BigInt"  -> ToBigInt(value)
    [] of = "Number"  -> ToNumber(value)
    [] of = "timestamp" ->
         \* value.split(' ', 2): no value of the model has a time part
         IF value.type = "string" THEN Failure("Error") ELSE Failure("TypeError")
    [] OTHER -> value

\* type.parse(value)
TypeParse(rule, value) ==
  IF ~rule.array THEN ParseScalar(rule.of, value)
  ELSE IF value.type # "array" THEN Failure("ZodError")
  ELSE LET items == [k \in 1..Len(value.items) |-> ParseScalar(rule.of, value.items[k])]
           failed == {k \in 1..Len(items) : IsFailure(items[k])}
       IN  IF failed # {}
           THEN items[CHOOSE k \in failed : \A l \in failed : k <= l]
           ELSE JsArray(items)

\* standardColumnTypes
standardColumnTypes ==
  [name \in {"address", "data", "extra_data", "from", "hash", "input", "miner",
             "receipts_root", "state_root", "to", "tx_hash"} |-> Rule("hex", FALSE)]
  @@ [name \in {"block_num", "gas", "gas_price", "nonce", "value"} |-> Rule("BigInt", FALSE)]
  @@ [name \in {"gas_limit", "gas_used", "num"} |-> Rule("bigint", FALSE)]
  @@ [name \in {"chain", "idx", "log_idx", "size", "timestamp", "type"} |->
        Rule("number", FALSE)]
  @@ [name \in {"topics"} |-> Rule("string", TRUE)]
  @@ [name \in {"block_timestamp"} |-> Rule("timestamp", FALSE)]

\* standardColumnTypes[name as keyof typeof standardColumnTypes]
StandardType(name) ==
  IF name \in DOMAIN standardColumnTypes THEN standardColumnTypes[name] ELSE NoRule

standardTables == {"txs", "logs", "blocks"}

\* text.toLowerCase() of the words the queries and signatures are written with
Lower(text) ==
  CASE text = "Transfer" -> "transfer"
    [] text = "Logs" -> "logs"
    [] text = "FROM" -> "from"
    [] OTHER -> text

\* The patterns look at a query word by word, commas left out: a word is
\* written as it stands, between double quotes, or after the qualifier `table.`
Word(text) == [table |-> "", word |-> text, quoted |-> FALSE]
Quoted(text) == [table |-> "", word |-> text, quoted |-> TRUE]
Qualified(table, column) == [table |-> table, word |-> column, quoted |-> FALSE]

\* the query of the calls of a client, and the queries given to parse
Query == "select block_num, hash from txs"
QueryLogs == "select block_num FROM Logs"
QueryTransfer == "select value, ids, hash from transfer"
QueryJoin == "select txs.hash, transfer.hash, transfer.value from txs join transfer"
QueryUpper == "select Transfer.value, Transfer.ids from transfer"
QueryQuoted == "select block_num, hash from \"txs\""
QueryBlocks == "select num, gas_limit from blocks"

\* the words of a query
Words(text) ==
  CASE text = Query ->
         <<Word("select"), Word("block_num"), Word("hash"), Word("from"), Word("txs")>>
    [] text = QueryLogs ->
         <<Word("select"), Word("block_num"), Word("FROM"), Word("Logs")>>
    [] text = QueryTransfer ->
         <<Word("select"), Word("value"), Word("ids"), Word("hash"), Word("from"),
           Word("transfer")>>
    [] text = QueryJoin ->
         <<Word("select"), Qualified("txs", "hash"), Qualified("transfer", "hash"),
           Qualified("transfer", "value"), Word("from"), Word("txs"), Word("join"),
           Word("transfer")>>
    [] text = QueryUpper ->
         <<Word("select"), Qualified("Transfer", "value"), Qualified("Transfer", "ids"),
           Word("from"), Word("transfer")>>
    [] text = QueryQuoted ->
         <<Word("select"), Word("block_num"), Word("hash"), Word("from"), Quoted("txs")>>
    [] text = QueryBlocks ->
         <<Word("select"), Word("num"), Word("gas_limit"), Word("from"), Word("blocks")>>
    [] OTHER -> <<>>

\* extractTableName(query): query.toLowerCase().match(/\bfrom\s+(\w+)/i)?.[1]
\* over the words of the query, "" for null
extractTableName(query) ==
  LET found == {k \in 1..(Len(query) - 1) :
                  /\ Lower(query[k].word) = "from"
                  /\ ~query[k].quoted
                  /\ ~query[k + 1].quoted}
  IN  IF found = {} THEN ""
      ELSE LET first == CHOOSE k \in found : \A l \in found : k <= l
               next == query[first + 1]
           IN  Lower(IF next.table # "" THEN next.table ELSE next.word)

\* getColumnTableName({ name, query }) over the words of the query: the
\* qualifier, as it is written, of the first `table.name` (the pattern has the
\* flag 'i'), "" for null
getColumnTableName(name, query) ==
  LET found == {k \in 1..Len(query) :
                  query[k].table # "" /\ Lower(query[k].word) = Lower(name)}
  IN  IF found = {} THEN ""
      ELSE query[CHOOSE k \in found : \A l \in found : k <= l].table

\* AbiItem.from(signature): the name of the item and its inputs; the type of
\* an input is its base, its digits (0: none) and whether `[]` follows them
AbiItem(name, inputs) == [name |-> name, inputs |-> inputs]
AbiType(base, bits, array) == [base |-> base, bits |-> bits, array |-> array]
Input(name, type) == [name |-> name, type |-> type]

\* the `transform` of an input (part_001 136-154)
Transform(type) ==
  IF type.base = "address" THEN Rule("hex", FALSE)
  ELSE IF type.base = "bool" THEN Rule("boolean", FALSE)
  ELSE IF type.base = "bytes" THEN Rule("hex", type.array)
  ELSE IF type.base \in {"int", "uint"}
  THEN \* type.match(/int(\d+)$/)?.[1]: the digits have to end the type
       LET size == IF type.array THEN 0 ELSE type.bits
       IN  Rule(IF size # 0 /\ size <= 48 THEN "Number" ELSE "BigInt", type.array)
  ELSE Rule("string", FALSE)

\* an optional option is <<>> when it is undefined and <<x>> when it is x;
\* `signatures ?? []`
Signatures(opts) ==
  IF opts.signatures = <<>> THEN <<>> ELSE opts.signatures[1]

\* the type of the input behind signatureTypes[tableName]?.[name]: of the
\* last signature that was stored under the key, the last input of that name
NoType == AbiType("", 0, FALSE)
InputType(signatures, tableName, name) ==
  LET items == {s \in 1..Len(signatures) : Lower(signatures[s].name) = tableName}
  IN  IF items = {} THEN NoType
      ELSE LET abiItem == signatures[CHOOSE s \in items : \A t \in items : t <= s]
               inputs  == {k \in 1..Len(abiItem.inputs) :
                             abiItem.inputs[k].name # "" /\ abiItem.inputs[k].name = name}
           IN  IF inputs = {} THEN NoType
               ELSE abiItem.inputs[CHOOSE k \in inputs : \A l \in inputs : l <= k].type

\* signatureTypes[tableName]?.[name]
SignatureType(signatures, tableName, name) ==
  IF InputType(signatures, tableName, name) = NoType THEN NoRule
  ELSE Transform(InputType(signatures, tableName, name))

\* getColumnTableName({ name, query }) ?? sourceTableName
TableName(name, query) ==
  IF getColumnTableName(name, Words(query)) # ""
  THEN getColumnTableName(name, Words(query))
  ELSE extractTableName(Words(query))

\* the `type` parse looks up for column j (part_001 170-185)
ColumnType(raw, opts, j) ==
  LET name == raw.columns[j].name
      tableName == TableName(name, opts.query)
      signed == SignatureType(Signatures(opts), tableName, name)
  IN  IF tableName = "" THEN NoRule
      ELSE IF tableName \in standardTables THEN StandardType(name)
      ELSE IF signed # NoRule THEN signed
      ELSE StandardType(name)

\* the `value` parse assigns for row i and column j (part_001 173-189)
CellValue(raw, opts, i, j) ==
  LET type == ColumnType(raw, opts, j)
  IN  IF type = NoRule THEN raw.rows[i][j] ELSE TypeParse(type, raw.rows[i][j])

\* row[name] = value: a key the object has keeps its place
Assign(row, key, value) ==
  IF \E k \in 1..Len(row) : row[k].key = key
  THEN [k \in 1..Len(row) |->
          IF row[k].key = key THEN [key |-> key, value |-> value] ELSE row[k]]
  ELSE Append(row, [key |-> key, value |-> value])

\* `row` after the first j columns of row i
RECURSIVE Row(_, _, _, _)
Row(raw, opts, i, j) ==
  IF j = 0 THEN <<>>
  ELSE Assign(Row(raw, opts, i, j - 1), raw.columns[j].name, CellValue(raw, opts, i, j))

\* rows that come out in the reverse order
RowsReversed(raw, opts) ==
  [i \in 1..Len(raw.rows) |->
     Row(raw, opts, Len(raw.rows) + 1 - i, Len(raw.columns))]

\* `rows` after the loop over raw.rows (part_001 162-194)
Rows(raw, opts) ==
  [i \in 1..Len(raw.rows) |-> Row(raw, opts, i, Len(raw.columns))]

\* the cells of raw whose type.parse throws
Failing(raw, opts) ==
  {cell \in (1..Len(raw.rows)) \X (1..Len(raw.columns)) :
     IsFailure(CellValue(raw, opts, cell[1], cell[2]))}

\* a parse that leaves out the rows with a value it cannot decode
parsePartial(raw, opts) ==
  [cursor |-> raw.cursor,
   rows |-> SelectSeq(Rows(raw, opts),
                      LAMBDA row : \A k \in 1..Len(row) : ~IsFailure(row[k].value))]

\* Result.parse(raw, { query, signatures }): the result, or [thrown |-> name]
\* with the error of the first value whose type.parse threw
parse(raw, opts) ==
  LET failing == Failing(raw, opts)
  IN  IF failing # {}
      THEN LET first == CHOOSE cell \in failing :
                          \A other \in failing :
                            \/ cell[1] < other[1]
                            \/ cell[1] = other[1] /\ cell[2] <= other[2]
           IN  [thrown |-> CellValue(raw, opts, first[1], first[2]).v]
      ELSE [cursor |-> raw.cursor, rows |-> Rows(raw, opts)]

\* no signatures among the options
NoSignatures == <<>>

\* event Transfer(uint32 value, uint32[] ids)
TransferSignature ==
  AbiItem("Transfer", <<Input("value", AbiType("uint", 32, FALSE)),
                        Input("ids", AbiType("uint", 32, TRUE))>>)
\* event Logs(uint32 block_num)
LogsSignature == AbiItem("Logs", <<Input("block_num", AbiType("uint", 32, FALSE))>>)

\* Raw.columns of the result batches the endpoint sends
Columns ==
  <<[name |-> "block_num", pgtype |-> "int8"], [name |-> "hash", pgtype |-> "bytea"]>>

\* the Raw result batch the endpoint sends with a cursor: one without rows, one
\* with one row
Raw(cursor) ==
  [cursor |-> cursor,
   columns |-> Columns,
   rows |-> IF cursor = "c1" THEN <<>>
            ELSE <<<<JsNumber("7"), JsString("0xab")>>>>]

RawBatches == {Raw(cursor) : cursor \in BatchCursors}

\* a result batch whose second row has a hash that is no hex string
Undecodable ==
  [cursor |-> "c2",
   columns |-> Columns,
   rows |-> <<<<JsNumber("7"), JsString("0xab")>>, <<JsNumber("7"), JsString("7")>>>>]

\* no result
NoResult == [cursor |-> "none", rows |-> <<>>]

\* no call of Result.parse
NoRaw == [cursor |-> "none", columns |-> <<>>, rows |-> <<>>]
NoParse ==
  [pc |-> "none", raw |-> NoRaw,
   options |-> [query |-> "", signatures |-> NoSignatures], result |-> NoResult]

(***************************************************************************)
(* The emitter of the client (src/src/internal/emitter.ts).                *)
(***************************************************************************)
\* the `{ id }` the emit closure passes to the listeners: the variable `id` of
\* create() as it stands when emit runs, after any id++ of the same step
EmitId == id'

(***************************************************************************)
(* What is observed of a call.                                             *)
(***************************************************************************)
NoObs ==
  [requests   |-> 0,        \* exchanges started with the global fetch
   sent       |-> "none",   \* cursor carried by the latest request
   resume     |-> "none",   \* cursor of the latest batch yielded before the latest request
   reqEvents  |-> 0,        \* 'request' events emitted
   respEvents |-> 0,        \* 'response' events emitted
   errEvents  |-> 0,        \* 'error' events emitted
   emitted    |-> NoError,  \* the latest error emitted
   decision   |-> "none",   \* what the latest catch did with shouldRetry's answer
   raised     |-> NoError,  \* the error the call raised to its caller
   delay      |-> 0,        \* the delay of the latest backoff sleep, in ms
   sleeps     |-> 0,        \* backoff sleeps started
   steady     |-> TRUE,     \* every exchange so far was answered with a retryable status
   yielded    |-> 0,        \* batches yielded to the consumer
   lastYield  |-> "none",   \* cursor of the latest batch yielded
   decoded    |-> "none",   \* the latest readStream gave live on this connection: "data",
                            \* an error type, or "end" for the end of the body
   fresh      |-> 0,        \* batches yielded since `count` was last incremented
   instance   |-> -1,       \* the value of `id` when emitter.instance() returned to the call
   tag        |-> -1,       \* the id passed to the listeners with the call's latest event
   batch      |-> NoResult, \* the result batch of the endpoint behind the latest value
   value      |-> NoResult, \* the latest value handed to the caller: returned or yielded
   payload    |-> <<>>,     \* `data`: the latest array of result batches the for await
                            \* loop of this connection was given
   arrived    |-> 0,        \* result batches decoded so far
   empty      |-> FALSE,    \* the latest answer was ok with an empty JSON array
   method     |-> "none",   \* the method of the latest request of fetch
   body       |-> <<>>,     \* the array the body of that request is the JSON text of
   events     |-> <<>>]     \* the events emitted in the latest attempt, in order, with
                            \* "fetch" for its call of the global fetch

(***************************************************************************)
(* create.fetch                                                            *)
(***************************************************************************)
\* the cursor option as text: the string itself, or the { chainId,
\* blockNumber } of `position` as `${cursor.chainId}-${cursor.blockNumber}`
CursorText(o) ==
  IF o.cursor = "object"
  THEN ToString(o.position[1].chainId) \o "-" \o ToString(o.position[1].blockNumber)
  ELSE o.cursor

\* a request body that always has a cursor key
RequestBodyWithCursor(o) ==
  [query |-> o.query, cursor |-> <<CursorText(o)>>, signatures |-> o.signatures]

\* requestBody (IndexSupply.ts 171-175): a key the object does not have is <<>>
RequestBody(o) ==
  [query |-> o.query,
   cursor |-> IF o.cursor # "none" THEN <<CursorText(o)>> ELSE <<>>,
   signatures |-> o.signatures]

\* new Request(url, { ...requestInit, body, headers, method: 'POST' }): its
\* method, and the array its body is the JSON text of
Request(o) ==
  [method |-> "POST", body |-> <<RequestBody(o)>>] @@ [method |-> o.method]

\* an attempt that calls the global fetch before it emits 'request'
AttemptFetchFirst == <<"fetch", "request">>

\* how an attempt of fetch or live starts: emit('request', request.clone()),
\* then fetch(request)
Attempt == <<"request", "fetch">>

\* the head of the while loop of fetch, up to `await fetch(request)`, or the
\* statements after the loop
FetchLoop(c, o) ==
  IF Remaining(c)
  THEN /\ count' = [count EXCEPT ![c] = @ + 1]
       /\ pc' = [pc EXCEPT ![c] = "awaitFetch"]
       /\ obs' = [obs EXCEPT ![c] =
                    [o EXCEPT !.requests = @ + 1, !.reqEvents = @ + 1, !.tag = EmitId,
                              !.events = Attempt,
                              !.method = Request(options[c]).method,
                              !.body = Request(options[c]).body]]
       /\ UNCHANGED lastError
  ELSE /\ lastError' = [lastError EXCEPT ![c] =
                          IF @ = NoError
                          THEN BaseError("Maximum retry attempts reached", o.requests)
                          ELSE @]
       /\ pc' = [pc EXCEPT ![c] = "failed"]
       /\ obs' = [obs EXCEPT ![c] = [o EXCEPT !.raised = lastError'[c]]]
       /\ UNCHANGED count

\* a catch block that does not consult shouldRetry
FetchCatchUnchecked(c, error, o) ==
  /\ lastError' = [lastError EXCEPT ![c] = error]
  /\ pc' = [pc EXCEPT ![c] = "sleeping"]
  /\ obs' = [obs EXCEPT ![c] =
               [o EXCEPT !.errEvents = @ + 1, !.tag = EmitId,
                         !.events = Append(@, "error"),
                         !.emitted = error,
                         !.decision = "retry",
                         !.delay = Backoff(count[c]),
                         !.sleeps = @ + 1]]

\* a catch block that reports to the sink only the error it raises
FetchCatchQuiet(c, error, o) ==
  IF ~ShouldRetry(error)
  THEN /\ pc' = [pc EXCEPT ![c] = "failed"]
       /\ obs' = [obs EXCEPT ![c] =
                    [o EXCEPT !.errEvents = @ + 1, !.tag = EmitId,
                              !.events = Append(@, "error"),
                              !.emitted = error,
                              !.decision = "raise",
                              !.raised = error]]
       /\ UNCHANGED lastError
  ELSE /\ lastError' = [lastError EXCEPT ![c] = error]
       /\ pc' = [pc EXCEPT ![c] = "sleeping"]
       /\ obs' = [obs EXCEPT ![c] =
                    [o EXCEPT !.decision = "retry",
                              !.delay = Backoff(count[c]),
                              !.sleeps = @ + 1]]

\* a catch block that does not sleep when no attempt remains
FetchCatchNoLastSleep(c, error, o) ==
  LET e == [o EXCEPT !.errEvents = @ + 1, !.tag = EmitId, !.emitted = error,
                     !.events = Append(@, "error")]
  IN  IF ~ShouldRetry(error)
      THEN /\ pc' = [pc EXCEPT ![c] = "failed"]
           /\ obs' = [obs EXCEPT ![c] =
                        [e EXCEPT !.decision = "raise", !.raised = error]]
           /\ UNCHANGED lastError
      ELSE IF ~Remaining(c)
      THEN /\ lastError' = [lastError EXCEPT ![c] = error]
           /\ pc' = [pc EXCEPT ![c] = "failed"]
           /\ obs' = [obs EXCEPT ![c] =
                        [e EXCEPT !.decision = "retry", !.raised = error]]
      ELSE /\ lastError' = [lastError EXCEPT ![c] = error]
           /\ pc' = [pc EXCEPT ![c] = "sleeping"]
           /\ obs' = [obs EXCEPT ![c] =
                        [e EXCEPT !.decision = "retry",
                                  !.delay = Backoff(count[c]),
                                  !.sleeps = @ + 1]]

\* the catch block of fetch, entered with the observations o of the try block
FetchCatch(c, error, o) ==
  LET e == [o EXCEPT !.errEvents = @ + 1, !.tag = EmitId, !.emitted = error,
                     !.events = Append(@, "error")]
  IN  IF ~ShouldRetry(error)
      THEN /\ pc' = [pc EXCEPT ![c] = "failed"]
           /\ obs' = [obs EXCEPT ![c] =
                        [e EXCEPT !.decision = "raise", !.raised = error]]
           /\ UNCHANGED lastError
      ELSE /\ lastError' = [lastError EXCEPT ![c] = error]
           /\ pc' = [pc EXCEPT ![c] = "sleeping"]
           /\ obs' = [obs EXCEPT ![c] =
                        [e EXCEPT !.decision = "retry",
                                  !.delay = Backoff(count[c]),
                                  !.sleeps = @ + 1]]

\* fetch(options) is called: it runs to the first `await fetch(request)`
FetchCall(c) ==
  /\ kind[c] = "fetch"
  /\ id' = id + 1
  /\ UNCHANGED <<wire, rs, pr, qb, sink, cq>>
  /\ pc[c] = "idle"
  /\ FetchLoop(c, [obs[c] EXCEPT !.instance = id'])
  /\ UNCHANGED <<kind, options, shouldAbort, pending, aborted, served>>

\* the exchange is rejected: cancelled, or failed at network level
FetchRejected(c) ==
  /\ kind[c] = "fetch"
  /\ UNCHANGED <<id, wire, rs, pr, qb, sink, cq>>
  /\ pc[c] = "awaitFetch"
  /\ LET o == [obs[c] EXCEPT !.steady = FALSE]
     IN  FetchCatch(c, ForeignError(IF aborted[c] THEN "AbortError" ELSE "TypeError",
                                    o.requests), o)
  /\ UNCHANGED <<kind, options, count, shouldAbort, pending, aborted, served>>

\* the { query, signatures } fetch hands to Result.parse
ParseOptions(c) == [query |-> options[c].query, signatures |-> options[c].signatures]

\* `return Result.parse(result, ...)` inside the try block: what parse throws
\* goes to the catch block, what it returns is the value of the call
FetchParsed(c, o, parsed) ==
  IF "thrown" \in DOMAIN parsed
  THEN FetchCatch(c, ForeignError(parsed.thrown, o.requests), o)
  ELSE /\ pc' = [pc EXCEPT ![c] = "done"]
       /\ obs' = [obs EXCEPT ![c] = [o EXCEPT !.value = parsed]]
       /\ UNCHANGED lastError

\* the exchange is answered with a status and a body: a JSON body (the result
\* array, or the message of a failure), an empty array, or a body whose read
\* fails
FetchAnswered(c) ==
  /\ kind[c] = "fetch"
  /\ UNCHANGED <<id, wire, rs, pr, qb, sink, cq>>
  /\ pc[c] = "awaitFetch"
  /\ ~aborted[c]
  /\ \E status \in Statuses, body \in {"json", "empty", "unreadable"} :
       LET o == [obs[c] EXCEPT
                   !.respEvents = @ + 1, !.tag = EmitId,
                   !.events = Append(@, "response"),
                   !.empty = Ok(status) /\ body = "empty",
                   !.steady = /\ @
                              /\ body # "unreadable"
                              /\ ShouldRetry(FetchRequestError(status, 0))]
       IN  IF body = "unreadable"
           THEN FetchCatch(c, ForeignError("TypeError", o.requests), o)
           ELSE IF ~Ok(status)
           THEN /\ body = "json"
                /\ FetchCatch(c, FetchRequestError(status, o.requests), o)
           ELSE IF body = "empty"
           THEN FetchCatch(c, BaseError("No results returned", o.requests), o)
           ELSE \E result \in RawBatches \cup {Undecodable} :
                  FetchParsed(c, [o EXCEPT !.batch = result],
                              parse(result, ParseOptions(c)))
  /\ UNCHANGED <<kind, options, count, shouldAbort, pending, aborted, served>>

\* the backoff timer of fetch fires: the loop goes on
FetchWake(c) ==
  /\ kind[c] = "fetch"
  /\ UNCHANGED <<id, wire, rs, pr, qb, sink, cq>>
  /\ pc[c] = "sleeping"
  /\ FetchLoop(c, obs[c])
  /\ UNCHANGED <<kind, options, shouldAbort, pending, aborted, served>>

(***************************************************************************)
(* create.live                                                             *)
(***************************************************************************)
\* params.set('cursor', ...): the cursor a request of live carries
RequestCursor(c) == options[c].cursor

\* the head of the while loop of live, up to `await fetch(request)`, or the
\* statements after the loop
LiveLoop(c, o) ==
  IF Remaining(c)
  THEN /\ count' = [count EXCEPT ![c] = @ + 1]
       /\ pc' = [pc EXCEPT ![c] = "awaitFetch"]
       /\ obs' = [obs EXCEPT ![c] =
                    [o EXCEPT !.requests = @ + 1,
                              !.reqEvents = @ + 1, !.tag = EmitId,
                              !.events = Attempt,
                              !.sent = RequestCursor(c),
                              !.decoded = "none",
                              !.payload = <<>>,
                              !.resume = IF o.yielded > 0 THEN o.lastYield
                                         ELSE options[c].cursor,
                              !.fresh = 0]]
       /\ UNCHANGED lastError
  ELSE /\ lastError' = [lastError EXCEPT ![c] =
                          IF @ = NoError
                          THEN BaseError("Maximum retry attempts reached", o.requests)
                          ELSE @]
       /\ pc' = [pc EXCEPT ![c] = "failed"]
       /\ obs' = [obs EXCEPT ![c] = [o EXCEPT !.raised = lastError'[c]]]
       /\ UNCHANGED count

\* the catch block of live, entered with the observations o of the try block
LiveCatch(c, error, o) ==
  IF shouldAbort[c]
  THEN /\ pc' = [pc EXCEPT ![c] = "done"]
       /\ obs' = [obs EXCEPT ![c] = [o EXCEPT !.payload = <<>>]]
       /\ UNCHANGED lastError
  ELSE LET e == [o EXCEPT !.errEvents = @ + 1, !.tag = EmitId, !.emitted = error,
                          !.events = Append(@, "error"),
                          !.payload = <<>>]
       IN  IF ~ShouldRetry(error)
           THEN /\ pc' = [pc EXCEPT ![c] = "failed"]
                /\ obs' = [obs EXCEPT ![c] =
                             [e EXCEPT !.decision = "raise", !.raised = error]]
                /\ UNCHANGED lastError
           ELSE /\ lastError' = [lastError EXCEPT ![c] = error]
                /\ pc' = [pc EXCEPT ![c] = "sleeping"]
                /\ obs' = [obs EXCEPT ![c] =
                             [e EXCEPT !.decision = "retry",
                                       !.delay = Backoff(count[c]),
                                       !.sleeps = @ + 1]]

\* a loop over `data` that starts from its newest item
YieldNewestFirst(c, items, o) ==
  /\ pc' = [pc EXCEPT ![c] = "yield"]
  /\ pending' = [pending EXCEPT ![c] = SubSeq(items, 1, Len(items) - 1)]
  /\ obs' = [obs EXCEPT ![c] =
               [o EXCEPT !.yielded = @ + 1,
                         !.lastYield = items[Len(items)].cursor,
                         !.batch = items[Len(items)],
                         !.value = items[Len(items)],
                         !.fresh = @ + 1]]

\* `yield item`: the generator hands one batch to the consumer and suspends
Yield(c, items, o) ==
  /\ pc' = [pc EXCEPT ![c] = "yield"]
  /\ pending' = [pending EXCEPT ![c] = Tail(items)]
  /\ obs' = [obs EXCEPT ![c] =
               [o EXCEPT !.yielded = @ + 1,
                         !.lastYield = Head(items).cursor,
                         !.batch = Head(items),
                         !.value = Head(items),
                         !.fresh = @ + 1]]

\* the consumer asks for the first value: the generator body starts, adds its
\* abort listener and runs to the first `await fetch(request)`
LiveStart(c) ==
  /\ kind[c] = "live"
  /\ id' = id + 1
  /\ UNCHANGED <<wire, rs, pr, qb, sink, cq>>
  /\ pc[c] = "idle"
  /\ LiveLoop(c, [obs[c] EXCEPT !.instance = id'])
  /\ UNCHANGED <<kind, options, shouldAbort, pending, aborted, served>>

\* the exchange is rejected: cancelled, or failed at network level
LiveRejected(c) ==
  /\ kind[c] = "live"
  /\ UNCHANGED <<id, wire, rs, pr, qb, sink, cq>>
  /\ pc[c] = "awaitFetch"
  /\ LiveCatch(c, ForeignError(IF aborted[c] THEN "AbortError" ELSE "TypeError",
                               obs[c].requests), obs[c])
  /\ UNCHANGED <<kind, options, count, shouldAbort, pending, aborted, served>>

\* the exchange is answered with a status and a body: a stream, no body, or
\* (read only for a failure status) a body whose read fails
LiveAnswered(c) ==
  /\ kind[c] = "live"
  /\ UNCHANGED <<id, wire, rs, pr, qb, sink, cq>>
  /\ pc[c] = "awaitFetch"
  /\ ~aborted[c]
  /\ \E status \in Statuses, body \in {"stream", "null", "unreadable"} :
       LET o == [obs[c] EXCEPT !.respEvents = @ + 1, !.tag = EmitId,
                               !.events = Append(@, "response")]
       IN  IF ~Ok(status)
           THEN IF body = "unreadable"
                THEN LiveCatch(c, ForeignError("TypeError", o.requests), o)
                ELSE /\ body = "stream"
                     /\ LiveCatch(c, FetchRequestError(status, o.requests), o)
           ELSE IF body = "unreadable"
           THEN FALSE
           ELSE IF body = "null"
           THEN LiveCatch(c, BaseError("Response body is null", o.requests), o)
           ELSE /\ pc' = [pc EXCEPT ![c] = "reading"]
                /\ obs' = [obs EXCEPT ![c] = o]
                /\ UNCHANGED lastError
  /\ UNCHANGED <<kind, options, count, shouldAbort, pending, aborted, served>>

\* reader.read() resolves with a chunk: readStream appends it to its buffer and
\* looks for complete frames
LiveChunk(c) ==
  /\ kind[c] = "live"
  /\ UNCHANGED <<id, wire, rs, pr, qb, sink, cq>>
  /\ pc[c] = "reading"
  /\ ~aborted[c]
  /\ pc' = [pc EXCEPT ![c] = "scanning"]
  /\ UNCHANGED <<kind, options, count, lastError, shouldAbort, pending, aborted, served, obs>>

\* the buffer holds no further complete frame: readStream awaits reader.read()
LiveNoFrame(c) ==
  /\ kind[c] = "live"
  /\ UNCHANGED <<id, wire, rs, pr, qb, sink, cq>>
  /\ pc[c] = "scanning"
  /\ pc' = [pc EXCEPT ![c] = "reading"]
  /\ UNCHANGED <<kind, options, count, lastError, shouldAbort, pending, aborted, served, obs>>

\* a loop over `data` that passes over the result batches without rows
LiveDataSkipsEmpty(c) ==
  /\ kind[c] = "live"
  /\ UNCHANGED <<id, wire, rs, pr, qb, sink, cq>>
  /\ pc[c] = "scanning"
  /\ served[c] < MaxPayloads
  /\ served' = [served EXCEPT ![c] = @ + 1]
  /\ \E n \in 0..MaxBatches : \E data \in [1..n -> RawBatches] :
       LET o == [obs[c] EXCEPT !.decoded = "data",
                               !.payload = data,
                               !.arrived = @ + Len(data)]
           HasRows(item) == item.rows # <<>>
           items == SelectSeq(data, HasRows)
       IN  IF items = <<>>
           THEN /\ count' = [count EXCEPT ![c] = 0]
                /\ obs' = [obs EXCEPT ![c] = o]
                /\ UNCHANGED <<pc, pending>>
           ELSE /\ Yield(c, items, o)
                /\ UNCHANGED count
  /\ UNCHANGED <<kind, options, lastError, shouldAbort, aborted>>

\* readStream yields a decoded array of result batches
LiveData(c) ==
  /\ kind[c] = "live"
  /\ UNCHANGED <<id, wire, rs, pr, qb, sink, cq>>
  /\ pc[c] = "scanning"
  /\ served[c] < MaxPayloads
  /\ served' = [served EXCEPT ![c] = @ + 1]
  /\ \E n \in 0..MaxBatches : \E data \in [1..n -> RawBatches] :
       LET o == [obs[c] EXCEPT !.decoded = "data",
                               !.payload = data,
                               !.arrived = @ + Len(data)]
       IN  IF data = <<>>
           THEN /\ count' = [count EXCEPT ![c] = 0]
                /\ obs' = [obs EXCEPT ![c] = o]
                /\ UNCHANGED <<pc, pending>>
           ELSE /\ Yield(c, data, o)
                /\ UNCHANGED count
  /\ UNCHANGED <<kind, options, lastError, shouldAbort, aborted>>

\* readStream yields a decoded payload tagged {error: 'client' | 'server'}
LiveErrorPayload(c) ==
  /\ kind[c] = "live"
  /\ UNCHANGED <<id, wire, rs, pr, qb, sink, cq>>
  /\ pc[c] = "scanning"
  /\ \E type \in {"client", "server"} :
       LiveCatch(c, SseError(type, obs[c].requests), [obs[c] EXCEPT !.decoded = type])
  /\ UNCHANGED <<kind, options, count, shouldAbort, pending, aborted, served>>

\* a data line is not JSON: readStream raises an SseError of type 'client'
LiveInvalidJson(c) ==
  /\ kind[c] = "live"
  /\ UNCHANGED <<id, wire, rs, pr, qb, sink, cq>>
  /\ pc[c] = "scanning"
  /\ LiveCatch(c, SseError("client", obs[c].requests), obs[c])
  /\ UNCHANGED <<kind, options, count, shouldAbort, pending, aborted, served>>

\* reader.read() rejects: cancelled, or failed at network level
LiveReadFailed(c) ==
  /\ kind[c] = "live"
  /\ UNCHANGED <<id, wire, rs, pr, qb, sink, cq>>
  /\ pc[c] = "reading"
  /\ LiveCatch(c, ForeignError(IF aborted[c] THEN "AbortError" ELSE "TypeError",
                               obs[c].requests), obs[c])
  /\ UNCHANGED <<kind, options, count, shouldAbort, pending, aborted, served>>

\* a live that opens a new connection when the body ends
LiveEndReconnects(c) ==
  /\ kind[c] = "live"
  /\ UNCHANGED <<id, wire, rs, pr, qb, sink, cq>>
  /\ pc[c] = "reading"
  /\ LiveLoop(c, [obs[c] EXCEPT !.decoded = "end"])
  /\ UNCHANGED <<kind, options, shouldAbort, pending, aborted, served>>

\* reader.read() resolves with done: the for await loop ends and live returns
LiveEnd(c) ==
  /\ kind[c] = "live"
  /\ UNCHANGED <<id, wire, rs, pr, qb, sink, cq>>
  /\ pc[c] = "reading"
  /\ pc' = [pc EXCEPT ![c] = "done"]
  /\ obs' = [obs EXCEPT ![c].decoded = "end"]
  /\ UNCHANGED <<kind, options, count, lastError, shouldAbort, pending, aborted, served>>

\* a for await body whose `count = 0` resets a counter shared by all calls
LiveResumeShared(c) ==
  /\ kind[c] = "live"
  /\ UNCHANGED <<id, wire, rs, pr, qb, sink, cq>>
  /\ pc[c] = "yield"
  /\ IF pending[c] # <<>>
     THEN /\ Yield(c, pending[c], obs[c])
          /\ UNCHANGED count
     ELSE /\ count' = [x \in Calls |-> 0]
          /\ pc' = [pc EXCEPT ![c] = "scanning"]
          /\ UNCHANGED <<pending, obs>>
  /\ UNCHANGED <<kind, options, lastError, shouldAbort, aborted, served>>

\* the consumer asks for the next value: the for-of loop yields the next item
\* of data, or ends, `count = 0` runs and readStream is asked for more
LiveResume(c) ==
  /\ kind[c] = "live"
  /\ UNCHANGED <<id, wire, rs, pr, qb, sink, cq>>
  /\ pc[c] = "yield"
  /\ IF pending[c] # <<>>
     THEN /\ Yield(c, pending[c], obs[c])
          /\ UNCHANGED count
     ELSE /\ count' = [count EXCEPT ![c] = 0]
          /\ pc' = [pc EXCEPT ![c] = "scanning"]
          /\ UNCHANGED <<pending, obs>>
  /\ UNCHANGED <<kind, options, lastError, shouldAbort, aborted, served>>

\* the consumer leaves its loop: the generator is returned at the yield
LiveReturn(c) ==
  /\ kind[c] = "live"
  /\ UNCHANGED <<id, wire, rs, pr, qb, sink, cq>>
  /\ pc[c] = "yield"
  /\ pc' = [pc EXCEPT ![c] = "done"]
  /\ UNCHANGED <<kind, options, count, lastError, shouldAbort, pending, aborted, served, obs>>

\* the backoff timer of live fires: the loop goes on
LiveWake(c) ==
  /\ kind[c] = "live"
  /\ UNCHANGED <<id, wire, rs, pr, qb, sink, cq>>
  /\ pc[c] = "sleeping"
  /\ LiveLoop(c, obs[c])
  /\ UNCHANGED <<kind, options, shouldAbort, pending, aborted, served>>

\* the caller cancels the token it gave the call, while the call is suspended
Abort(c) ==
  /\ options[c].signal
  /\ ~aborted[c]
  /\ pc[c] \notin {"scanning", "done", "failed"}
  /\ aborted' = [aborted EXCEPT ![c] = TRUE]
  /\ shouldAbort' = [shouldAbort EXCEPT ![c] = kind[c] = "live" /\ pc[c] # "idle"]
  /\ UNCHANGED <<id, kind, options, pc, count, lastError, pending, served, obs, wire, rs,
               pr, qb, sink, cq>>

(***************************************************************************)
(* readStream: the decoder of the response body of live.  Text is a        *)
(* sequence of characters, the body a sequence of bytes; "LF" is the line  *)
(* feed, "SP" the space, "q" the double quote, "e'" a character whose      *)
(* UTF-8 encoding is the two bytes "C3" "A9", "?" the replacement          *)
(* character U+FFFD.                                                       *)
(***************************************************************************)
\* the lines an endpoint writes: `data:1`, `data: "e'" `, the comment `:k`,
\* and `data:x`, whose payload is not JSON
LineText ==
  [D1 |-> <<"d", "a", "t", "a", ":", "1">>,
   D2 |-> <<"d", "a", "t", "a", ":", "SP", "q", "e'", "q", "SP">>,
   K  |-> <<":", "k">>,
   BX |-> <<"d", "a", "t", "a", ":", "x">>]

\* the frames an endpoint sends, each a sequence of lines
Frames == {<<"D1">>, <<"K", "D2">>, <<"BX">>, <<"D1", "BX", "D2">>}

\* what may follow the last separator of a body: nothing, or the beginning of
\* a frame that the endpoint never terminates
Tails == {<<>>, LineText.D1, LineText.D2 \o <<"LF">>}

\* the sequences of at most n elements of S
SeqUpTo(S, n) == UNION {[1..k -> S] : k \in 0..n}

\* the lines of a frame joined by line feeds and ended by the separator
RECURSIVE FrameText(_)
FrameText(frame) ==
  IF Len(frame) = 1
  THEN LineText[frame[1]] \o <<"LF", "LF">>
  ELSE LineText[frame[1]] \o <<"LF">> \o FrameText(Tail(frame))

\* the text of a body: its frames, then its tail
RECURSIVE BodyText(_, _)
BodyText(frames, tail) ==
  IF frames = <<>> THEN tail
  ELSE FrameText(Head(frames)) \o BodyText(Tail(frames), tail)

\* TextEncoder.encode: the UTF-8 bytes of a text
RECURSIVE Utf8(_)
Utf8(text) ==
  IF text = <<>> THEN <<>>
  ELSE IF Len(text) = 1
  THEN IF text[1] = "e'" THEN <<"C3", "A9">> ELSE text
  ELSE LET half == Len(text) \div 2
       IN  Utf8(SubSeq(text, 1, half)) \o Utf8(SubSeq(text, half + 1, Len(text)))

\* the character that ends at byte i of a byte sequence, "" when none does
Glyph(bytes, i) ==
  IF bytes[i] = "C3" THEN ""
  ELSE IF bytes[i] = "A9"
  THEN IF i > 1 /\ bytes[i - 1] = "C3" THEN "e'" ELSE "?"
  ELSE bytes[i]

\* the characters of a byte sequence; a "C3" that no "A9" follows is malformed
Glyphs(bytes) ==
  LET IsGlyph(g) == g # ""
  IN  SelectSeq([i \in 1..Len(bytes) |->
                   IF bytes[i] = "C3" /\ i < Len(bytes) /\ bytes[i + 1] # "A9"
                   THEN "?"
                   ELSE Glyph(bytes, i)],
                IsGlyph)

\* a decoder that does not keep the first byte of a character for the next chunk
DecodeFlushing(held, value) ==
  LET bytes == held \o value
      cut == bytes # <<>> /\ bytes[Len(bytes)] = "C3"
  IN  [text |-> Glyphs(bytes) \o (IF cut THEN <<"?">> ELSE <<>>), held |-> <<>>]

\* decoder.decode(value, { stream: true }): the text of the bytes of a chunk,
\* given the bytes `held` back from the chunks before it
Decode(held, value) ==
  LET bytes == held \o value
      cut == bytes # <<>> /\ bytes[Len(bytes)] = "C3"
  IN  [text |-> Glyphs(bytes), held |-> IF cut THEN <<"C3">> ELSE <<>>]

\* buffer.indexOf('\n\n'), counted from 1; 0 when there is none
IndexOfSeparator(buffer) ==
  LET found == {i \in 1..(Len(buffer) - 1) : buffer[i] = "LF" /\ buffer[i + 1] = "LF"}
  IN  IF found = {} THEN 0 ELSE CHOOSE i \in found : \A j \in found : i <= j

\* a split that gives the first line of the block only
SplitFirstLine(block) ==
  LET found == {i \in 1..Len(block) : block[i] = "LF"}
  IN  IF found = {} THEN <<block>>
      ELSE <<SubSeq(block, 1, (CHOOSE i \in found : \A j \in found : i <= j) - 1)>>

\* block.split('\n')
RECURSIVE Split(_)
Split(block) ==
  LET found == {i \in 1..Len(block) : block[i] = "LF"}
  IN  IF found = {} THEN <<block>>
      ELSE LET first == CHOOSE i \in found : \A j \in found : i <= j
           IN  <<SubSeq(block, 1, first - 1)>> \o
               Split(SubSeq(block, first + 1, Len(block)))

\* line.startsWith('data:')
StartsWithData(line) ==
  Len(line) >= 5 /\ SubSeq(line, 1, 5) = <<"d", "a", "t", "a", ":">>

\* String.prototype.trim
RECURSIVE Trim(_)
Trim(text) ==
  IF text = <<>> THEN <<>>
  ELSE IF Head(text) = "SP" THEN Trim(Tail(text))
  ELSE IF text[Len(text)] = "SP" THEN Trim(SubSeq(text, 1, Len(text) - 1))
  ELSE text

\* JSON.parse(json): a number of digits 1, or a string between double quotes;
\* any other text makes it throw a SyntaxError
JsonParse(json) ==
  LET n == Len(json)
      number == n >= 1 /\ \A i \in 1..n : json[i] = "1"
      string == /\ n >= 2
                /\ json[1] = "q"
                /\ json[n] = "q"
                /\ \A i \in 2..(n - 1) : json[i] \notin {"q", "LF"}
  IN  IF number \/ string
      THEN [ok |-> TRUE, value |-> json]
      ELSE [ok |-> FALSE, value |-> <<"SyntaxError">> \o json]

\* a generator that has not been created
NoRead ==
  [pc |-> "idle", pos |-> 0, held |-> <<>>, buffer |-> <<>>, lines |-> <<>>,
   out |-> <<>>, cancelled |-> <<>>, thrown |-> NoError, cause |-> <<>>, splits |-> {}]

\* a response body of the given frames and tail, with its bytes
Body(frames, tail) ==
  [frames |-> frames, tail |-> tail, bytes |-> Utf8(BodyText(frames, tail))]

\* the bytes of the body on the wire
Bytes == wire.bytes

\* where a chunk that ends after byte i of the body ends: inside a character,
\* between the two line feeds of a separator, or inside a line
SplitAt(i) ==
  IF i = Len(Bytes) THEN {}
  ELSE IF Bytes[i] = "C3" THEN {"character"}
  ELSE IF Bytes[i] = "LF" /\ Bytes[i + 1] = "LF" THEN {"separator"}
  ELSE IF Bytes[i] # "LF" THEN {"line"}
  ELSE {}

\* the calls of the client take no part in the steps of readStream
CallsUnchanged ==
  UNCHANGED <<id, kind, options, pc, count, lastError, shouldAbort, pending, aborted,
              served, obs, wire, pr, qb, sink, cq>>

\* the consumer asks for the first value: the body of readStream starts and
\* awaits reader.read()
ReadStart ==
  /\ rs.pc = "idle"
  /\ rs' = [rs EXCEPT !.pc = "read"]
  /\ CallsUnchanged

\* reader.read() resolves with the next n bytes of the body: they are decoded
\* and appended to the buffer
ReadChunk ==
  /\ rs.pc = "read"
  /\ \E n \in 1..(Len(Bytes) - rs.pos) :
       LET value == SubSeq(Bytes, rs.pos + 1, rs.pos + n)
           decoded == Decode(rs.held, value)
       IN  rs' = [rs EXCEPT !.pos = @ + n,
                            !.held = decoded.held,
                            !.buffer = @ \o decoded.text,
                            !.pc = "scan",
                            !.splits = @ \cup SplitAt(rs.pos + n)]
  /\ CallsUnchanged

\* a reader that takes what is left in the buffer at the end of the body for a
\* last frame
ReadDoneFlushing ==
  /\ rs.pc = "read"
  /\ rs.pos = Len(Bytes)
  /\ rs' = IF rs.buffer = <<>>
            THEN [rs EXCEPT !.pc = "closed", !.cancelled = Append(@, "Stream closed")]
            ELSE [rs EXCEPT !.pc = "lines", !.lines = Split(rs.buffer), !.buffer = <<>>]
  /\ CallsUnchanged

\* reader.read() resolves with done: the loop breaks and the finally block runs
ReadDone ==
  /\ rs.pc = "read"
  /\ rs.pos = Len(Bytes)
  /\ rs' = [rs EXCEPT !.pc = "closed", !.cancelled = Append(@, "Stream closed")]
  /\ CallsUnchanged

\* reader.read() rejects: the error leaves readStream through the finally block
ReadFailed ==
  /\ rs.pc = "read"
  /\ rs' = [rs EXCEPT !.pc = "raised",
                      !.thrown = ForeignError("TypeError", 0),
                      !.cancelled = Append(@, "Stream closed")]
  /\ CallsUnchanged

\* idx = buffer.indexOf('\n\n'): the block before the separator is cut off the
\* buffer and split into lines, or, without a separator, the next chunk is read
Scan ==
  /\ rs.pc = "scan"
  /\ LET idx == IndexOfSeparator(rs.buffer)
     IN  IF idx = 0
         THEN rs' = [rs EXCEPT !.pc = "read"]
         ELSE rs' = [rs EXCEPT !.pc = "lines",
                               !.lines = Split(SubSeq(rs.buffer, 1, idx - 1)),
                               !.buffer = SubSeq(rs.buffer, idx + 2, Len(rs.buffer))]
  /\ CallsUnchanged

\* a line loop that passes over a data line that is not JSON
NextLineSkipping ==
  /\ rs.pc = "lines"
  /\ IF rs.lines = <<>>
     THEN rs' = [rs EXCEPT !.pc = "scan"]
     ELSE LET line == Head(rs.lines)
              parsed == JsonParse(Trim(SubSeq(line, 6, Len(line))))
          IN  IF StartsWithData(line) /\ parsed.ok
              THEN rs' = [rs EXCEPT !.lines = Tail(@),
                                    !.out = Append(@, parsed.value),
                                    !.pc = "yield"]
              ELSE rs' = [rs EXCEPT !.lines = Tail(@)]
  /\ CallsUnchanged

\* one turn of `for (const line of lines)`: a data line is parsed and its
\* value yielded, or the parse fails, the reader is cancelled and an SseError
\* of type 'client' leaves readStream through the finally block
NextLine ==
  /\ rs.pc = "lines"
  /\ IF rs.lines = <<>>
     THEN rs' = [rs EXCEPT !.pc = "scan"]
     ELSE LET line == Head(rs.lines)
              json == Trim(SubSeq(line, 6, Len(line)))
              parsed == JsonParse(json)
          IN  IF ~StartsWithData(line)
              THEN rs' = [rs EXCEPT !.lines = Tail(@)]
              ELSE IF parsed.ok
              THEN rs' = [rs EXCEPT !.lines = Tail(@),
                                    !.out = Append(@, parsed.value),
                                    !.pc = "yield"]
              ELSE rs' = [rs EXCEPT !.lines = Tail(@),
                                    !.pc = "raised",
                                    !.thrown = SseError("client", 0),
                                    !.cause = parsed.value,
                                    !.cancelled = @ \o <<"Invalid JSON in data line",
                                                         "Stream closed">>]
  /\ CallsUnchanged

\* the consumer asks for the next value: readStream goes on after its yield
ReadResume ==
  /\ rs.pc = "yield"
  /\ rs' = [rs EXCEPT !.pc = "lines"]
  /\ CallsUnchanged

\* a generator that releases its reader after the loop, not in a finally block
ReadReturnOpen ==
  /\ rs.pc = "yield"
  /\ rs' = [rs EXCEPT !.pc = "returned"]
  /\ CallsUnchanged

\* the consumer leaves its loop: readStream is returned at its yield and the
\* finally block runs
ReadReturn ==
  /\ rs.pc = "yield"
  /\ rs' = [rs EXCEPT !.pc = "returned", !.cancelled = Append(@, "Stream closed")]
  /\ CallsUnchanged


\* no QueryBuilder.from(client) yet
NoPassed == [method |-> "none", builder |-> 0, cursor |-> "none", signatures |-> <<>>]
NoBuilders ==
  [cursor |-> "none", signatures |-> <<>>, builders |-> <<>>, passed |-> NoPassed]

(***************************************************************************)
(* The parameters of a compiled query: Connection.prepareQuery.            *)
(***************************************************************************)

MaxParams == 10

\* A text is a sequence of characters.  The texts String(param) gives here: a
\* plain one and one that reads like a placeholder (with a string pattern,
\* replaceAll inserts `$2` of a replacement as it stands).
Texts == {<<"x">>, <<"$", "2">>}

Digit == <<"0", "1", "2", "3", "4", "5", "6", "7", "8", "9">>

\* String(k) for k >= 1
RECURSIVE Digits(_)
Digits(k) == IF k < 10 THEN <<Digit[k + 1]>> ELSE Digits(k \div 10) \o <<Digit[(k % 10) + 1]>>

\* `$${i + 1}`, k being i + 1
Placeholder(k) == <<"$">> \o Digits(k)

\* compiledQuery.sql with the placeholders $1 .. $n, as the compiler numbers
\* them, one after the other
RECURSIVE Sql(_)
Sql(n) == IF n = 0 THEN <<>>
          ELSE IF n = 1 THEN Placeholder(1)
          ELSE Sql(n - 1) \o <<",">> \o Placeholder(n)

\* query.replaceAll(placeholder, by): every occurrence of the placeholder, from
\* left to right, none overlapping
RECURSIVE replaceAll(_, _, _)
replaceAll(query, placeholder, by) ==
  IF Len(query) < Len(placeholder) THEN query
  ELSE IF SubSeq(query, 1, Len(placeholder)) = placeholder
  THEN by \o replaceAll(SubSeq(query, Len(placeholder) + 1, Len(query)), placeholder, by)
  ELSE <<Head(query)>> \o replaceAll(Tail(query), placeholder, by)

\* compiledQuery.parameters.forEach from parameter k on
RECURSIVE Replaced(_, _, _)
Replaced(query, parameters, k) ==
  IF k > Len(parameters) THEN query
  ELSE Replaced(replaceAll(query, Placeholder(k), parameters[k]), parameters, k + 1)

NoQuery == [pc |-> "idle", sql |-> <<>>, parameters |-> <<>>, query |-> <<>>]

\* prepareQuery(compiledQuery) returns its query
PrepareCall ==
  /\ cq.pc = "called"
  /\ cq' = [cq EXCEPT !.pc = "returned", !.query = Replaced(cq.sql, cq.parameters, 1)]
  /\ UNCHANGED <<id, kind, options, pc, count, lastError, shouldAbort, pending, aborted,
                 served, obs, wire, rs, pr, qb, sink>>

(***************************************************************************)
(* The event sink: on, off and emit of the emitter.                        *)
(***************************************************************************)

MaxWrappers == 3

Handlers == {"h1", "h2"}

Types == {"request", "response", "*"}

\* No wrapper: what wrappers.get(handler) gives for a handler it does not hold.
NoWrapper == [n |-> 0, handler |-> ""]

NoSink == [all |-> [type \in Types |-> <<>>],
           wrappers |-> [handler \in Handlers |-> NoWrapper],
           made |-> 0, offed |-> {}, called |-> {}]

\* on(type, handler): a new wrapper closure is appended to the list of the type
\* and becomes the one wrapper remembered for the handler.
on(type, handler) ==
  /\ sink.made < MaxWrappers
  /\ LET wrapper == [n |-> sink.made + 1, handler |-> handler]
     IN sink' = [sink EXCEPT !.all[type] = Append(@, wrapper),
                             !.wrappers[handler] = wrapper,
                             !.made = @ + 1,
                             !.offed = @ \ {<<type, handler>>},
                             !.called = {}]
  /\ UNCHANGED <<id, kind, options, pc, count, lastError, shouldAbort, pending, aborted,
                 served, obs, wire, rs, pr, qb, cq>>

\* off(type, handler); handler "" is the call without a handler.  With a handler,
\* the wrapper remembered for it is taken out of the list of the type (a list
\* that does not hold it stays as it is) and is forgotten.
off(type, handler) ==
  /\ sink' = IF handler = ""
               THEN [sink EXCEPT !.all[type] = <<>>,
                                 !.offed = @ \cup ({type} \X Handlers),
                                 !.called = {}]
             ELSE IF sink.wrappers[handler] = NoWrapper
               THEN [sink EXCEPT !.offed = @ \cup {<<type, handler>>},
                                 !.called = {}]
             ELSE [sink EXCEPT !.all[type] =
                                 SelectSeq(@, LAMBDA w : w # sink.wrappers[handler]),
                               !.wrappers[handler] = NoWrapper,
                               !.offed = @ \cup {<<type, handler>>},
                               !.called = {}]
  /\ UNCHANGED <<id, kind, options, pc, count, lastError, shouldAbort, pending, aborted,
                 served, obs, wire, rs, pr, qb, cq>>

\* emit(type, data) of an instance: the wrappers of the type, then those of '*',
\* each invoking its handler.
emit(type) ==
  /\ type # "*"
  /\ sink' = [sink EXCEPT !.called =
                {<<type, sink.all[type][k].handler>> : k \in DOMAIN sink.all[type]}
                \cup {<<"*", sink.all["*"][k].handler>> : k \in DOMAIN sink.all["*"]}]
  /\ UNCHANGED <<id, kind, options, pc, count, lastError, shouldAbort, pending, aborted,
                 served, obs, wire, rs, pr, qb, cq>>

\* the calls of one client before they start, their options drawn from a set
InitOptions(kinds, optionSet) ==
  /\ id = -1
  /\ kind = kinds
  /\ options \in [DOMAIN kinds -> optionSet]
  /\ pc = [c \in DOMAIN kinds |-> "idle"]
  /\ count = [c \in DOMAIN kinds |-> 0]
  /\ lastError = [c \in DOMAIN kinds |-> NoError]
  /\ shouldAbort = [c \in DOMAIN kinds |-> FALSE]
  /\ pending = [c \in DOMAIN kinds |-> <<>>]
  /\ aborted = [c \in DOMAIN kinds |-> FALSE]
  /\ served = [c \in DOMAIN kinds |-> 0]
  /\ obs = [c \in DOMAIN kinds |-> NoObs]

\* calls with a query on txs, no signatures, a string cursor or none, and
\* nothing else in the options but retryCount and signal
InitCalls(kinds, retryCounts) ==
  InitOptions(kinds,
              [retryCount : retryCounts, cursor : CallerCursors, signal : BOOLEAN,
               query : {Query}, signatures : {NoSignatures}, position : {<<>>},
               method : {"none"}])

(***************************************************************************)
(* One fetch call against an arbitrary endpoint.                           *)
(***************************************************************************)
InitFetch ==
  /\ InitCalls([c \in {"f"} |-> "fetch"], 0..MaxFetchRetry)
  /\ wire = Body(<<>>, <<>>)
  /\ rs = NoRead
  /\ pr = NoParse
  /\ qb = NoBuilders
  /\ sink = NoSink
  /\ cq = NoQuery

NextFetch ==
  \/ \E c \in Calls : FetchCall(c)
  \/ \E c \in Calls : FetchRejected(c)
  \/ \E c \in Calls : FetchAnswered(c)
  \/ \E c \in Calls : FetchWake(c)
  \/ \E c \in Calls : Abort(c)

SpecFetch == InitFetch /\ [][NextFetch]_vars

(***************************************************************************)
(* One fetch call with arbitrary options for the request.                  *)
(***************************************************************************)
\* the { chainId, blockNumber } cursors the caller may supply
Positions == {[chainId |-> 8453, blockNumber |-> 12], [chainId |-> 1, blockNumber |-> 0]}

RequestOptions ==
  {o \in [retryCount : 0..MaxRequestRetry,
          cursor : CallerCursors \cup {"object"},
          signal : {FALSE},
          query : {Query, QueryTransfer},
          signatures : {NoSignatures, <<<<>>>>, <<<<TransferSignature>>>>},
          position : {<<>>} \cup {<<p>> : p \in Positions},
          method : {"none", "GET"}] :
     o.cursor = "object" <=> o.position # <<>>}

InitRequest ==
  /\ InitOptions([c \in {"f"} |-> "fetch"], RequestOptions)
  /\ wire = Body(<<>>, <<>>)
  /\ rs = NoRead
  /\ pr = NoParse
  /\ qb = NoBuilders
  /\ sink = NoSink
  /\ cq = NoQuery

NextRequest ==
  \/ \E c \in Calls : FetchCall(c)
  \/ \E c \in Calls : FetchRejected(c)
  \/ \E c \in Calls : FetchAnswered(c)
  \/ \E c \in Calls : FetchWake(c)

SpecRequest == InitRequest /\ [][NextRequest]_vars

(***************************************************************************)
(* One live call against an arbitrary endpoint and consumer.               *)
(***************************************************************************)
InitLive ==
  /\ InitCalls([c \in {"l"} |-> "live"], 0..MaxLiveRetry)
  /\ wire = Body(<<>>, <<>>)
  /\ rs = NoRead
  /\ pr = NoParse
  /\ qb = NoBuilders
  /\ sink = NoSink
  /\ cq = NoQuery

NextLive ==
  \/ \E c \in Calls : LiveStart(c)
  \/ \E c \in Calls : LiveRejected(c)
  \/ \E c \in Calls : LiveAnswered(c)
  \/ \E c \in Calls : LiveChunk(c)
  \/ \E c \in Calls : LiveNoFrame(c)
  \/ \E c \in Calls : LiveData(c)
  \/ \E c \in Calls : LiveErrorPayload(c)
  \/ \E c \in Calls : LiveInvalidJson(c)
  \/ \E c \in Calls : LiveReadFailed(c)
  \/ \E c \in Calls : LiveEnd(c)
  \/ \E c \in Calls : LiveResume(c)
  \/ \E c \in Calls : LiveReturn(c)
  \/ \E c \in Calls : LiveWake(c)
  \/ \E c \in Calls : Abort(c)

SpecLive == InitLive /\ [][NextLive]_vars

(***************************************************************************)
(* Two calls of one client in flight together, a fetch and a live, their   *)
(* steps interleaved in any order.  Neither call is given a cursor or a    *)
(* cancellation token, and the live endpoint delivers at most one array of *)
(* result batches.                                                         *)
(***************************************************************************)
InitPair ==
  /\ InitCalls([c \in {"f", "l"} |-> IF c = "f" THEN "fetch" ELSE "live"], 1..MaxPairRetry)
  /\ \A c \in {"f", "l"} : options[c].cursor = "none" /\ ~options[c].signal
  /\ wire = Body(<<>>, <<>>)
  /\ rs = NoRead
  /\ pr = NoParse
  /\ qb = NoBuilders
  /\ sink = NoSink
  /\ cq = NoQuery

NextPair ==
  \/ \E c \in Calls : FetchCall(c)
  \/ \E c \in Calls : FetchRejected(c)
  \/ \E c \in Calls : FetchAnswered(c)
  \/ \E c \in Calls : FetchWake(c)
  \/ \E c \in Calls : LiveStart(c)
  \/ \E c \in Calls : LiveRejected(c)
  \/ \E c \in Calls : LiveAnswered(c)
  \/ \E c \in Calls : LiveChunk(c)
  \/ \E c \in Calls : LiveNoFrame(c)
  \/ \E c \in Calls : served[c] = 0 /\ LiveData(c)
  \/ \E c \in Calls : LiveErrorPayload(c)
  \/ \E c \in Calls : LiveInvalidJson(c)
  \/ \E c \in Calls : LiveReadFailed(c)
  \/ \E c \in Calls : LiveEnd(c)
  \/ \E c \in Calls : LiveResume(c)
  \/ \E c \in Calls : LiveReturn(c)
  \/ \E c \in Calls : LiveWake(c)

SpecPair == InitPair /\ [][NextPair]_vars

(***************************************************************************)
(* One call of either kind, a fetch or a live, against an arbitrary        *)
(* endpoint.  The call is given no cursor.                                 *)
(***************************************************************************)
InitCall ==
  /\ InitFetch \/ InitLive
  /\ \A c \in Calls : options[c].cursor = "none"

SpecCall == InitCall /\ [][NextFetch \/ NextLive]_vars

(***************************************************************************)
(* readStream reading one response body, delivered in chunks of any sizes, *)
(* for a consumer that may stop at any value.                              *)
(***************************************************************************)
InitStream ==
  /\ InitCalls(<<>>, {0})
  /\ wire \in {Body(frames, tail) : frames \in SeqUpTo(Frames, MaxFrames), tail \in Tails}
  /\ rs = NoRead
  /\ pr = NoParse
  /\ qb = NoBuilders
  /\ sink = NoSink
  /\ cq = NoQuery

NextStream ==
  \/ ReadStart
  \/ ReadChunk
  \/ ReadDone
  \/ ReadFailed
  \/ Scan
  \/ NextLine
  \/ ReadResume
  \/ ReadReturn

SpecStream == InitStream /\ [][NextStream]_vars

(***************************************************************************)
(* readStream reading a body of complete frames: a frame without a data    *)
(* line, a frame of two data lines around a comment, and a frame whose     *)
(* second data line is not JSON.                                           *)
(***************************************************************************)
InitFrame ==
  /\ InitCalls(<<>>, {0})
  /\ wire \in {Body(frames, <<>>) :
                 frames \in SeqUpTo({<<"K">>, <<"D2", "K", "D1">>, <<"D1", "BX", "D2">>},
                                    MaxFrames)}
  /\ rs = NoRead
  /\ pr = NoParse
  /\ qb = NoBuilders
  /\ sink = NoSink
  /\ cq = NoQuery

SpecFrame == InitFrame /\ [][NextStream]_vars

(***************************************************************************)
(* One call of Result.parse on an arbitrary raw result.                    *)
(***************************************************************************)
Column(name) ==
  [name |-> name,
   pgtype |-> CASE name = "block_num" -> "int8"
                [] name = "hash" -> "bytea"
                [] name = "ids" -> "int4[]"
                [] OTHER -> "numeric"]

\* the columns of a raw result: of one table, or of a join with two columns
\* of one name
ColumnLists ==
  {<<>>, <<"hash">>, <<"block_num">>, <<"block_num", "hash">>, <<"value", "ids">>,
   <<"hash", "hash">>, <<"hash", "value">>, <<"num", "gas_limit">>}

\* the { query, signatures } given to parse
ParseOptionSets ==
  {[query |-> Query, signatures |-> NoSignatures],
   [query |-> QueryLogs, signatures |-> <<<<LogsSignature>>>>],
   [query |-> QueryTransfer, signatures |-> NoSignatures],
   [query |-> QueryTransfer, signatures |-> <<<<LogsSignature, TransferSignature>>>>],
   [query |-> QueryJoin, signatures |-> <<<<TransferSignature>>>>],
   [query |-> QueryUpper, signatures |-> <<<<TransferSignature>>>>],
   [query |-> QueryQuoted, signatures |-> NoSignatures],
   [query |-> QueryBlocks, signatures |-> NoSignatures]}

\* the values the endpoint puts in a column: a string, a number or an array
\* of strings
Cells(name) ==
  CASE name = "hash" -> {JsString("0xab"), JsString("7")}
    [] name = "block_num" -> {JsNumber("7"), JsArray(<<JsString("7"), JsString("0xab")>>)}
    [] name = "ids" -> {JsArray(<<JsString("7"), JsString("0xab")>>), JsNumber("7")}
    [] name \in {"num", "gas_limit"} -> {JsNumber("7"), JsString("7")}
    [] OTHER -> {JsString("7"), JsString("0xab")}

\* the rows of a raw result with these columns: a value for every column
RowsOf(names) == {row \in [1..Len(names) -> UNION {Cells(names[j]) : j \in 1..Len(names)}] :
                    \A j \in 1..Len(names) : row[j] \in Cells(names[j])}

\* the raw results given to parse
Raws ==
  UNION {{[cursor |-> cursor,
           columns |-> [j \in 1..Len(names) |-> Column(names[j])],
           rows |-> rows] :
            cursor \in BatchCursors,
            rows \in SeqUpTo(RowsOf(names), MaxRows)} :
         names \in ColumnLists}

\* parse runs from its call to its return or throw
ParseCall ==
  /\ pr.pc = "called"
  /\ LET result == parse(pr.raw, pr.options)
     IN  pr' = [pr EXCEPT !.result = result,
                          !.pc = IF "thrown" \in DOMAIN result THEN "thrown" ELSE "returned"]
  /\ UNCHANGED <<id, kind, options, pc, count, lastError, shouldAbort, pending, aborted,
                 served, obs, wire, rs, qb, sink, cq>>

InitParse ==
  /\ InitCalls(<<>>, {0})
  /\ wire = Body(<<>>, <<>>)
  /\ rs = NoRead
  /\ pr \in {[pc |-> "called", raw |-> raw, options |-> opts, result |-> NoResult] :
               raw \in Raws, opts \in ParseOptionSets}
  /\ qb = NoBuilders
  /\ sink = NoSink
  /\ cq = NoQuery

NextParse ==
  \/ ParseCall

SpecParse == InitParse /\ [][NextParse]_vars

(***************************************************************************)
(* The builders derived from one QueryBuilder.from(client)                 *)
(* (src/unnamed/part_004).  `qb` holds the `cursor` and the `signatures`   *)
(* of the closure of from, the `builders` inner has returned, each with    *)
(* the cursor its Driver was made with and, as `asked`, the cursor inner   *)
(* was called with, and as `passed` what the latest executed query gave    *)
(* the client.                                                             *)
(***************************************************************************)
\* cursors given to atCursor
BuilderCursors == {"c1", "c2"}
\* the ABI items given to withAbi, and the signatures given to withSignatures
AbiEvent(name, inputs) == [type |-> "event", name |-> name, inputs |-> inputs]
Abis == {<<AbiEvent(LogsSignature.name, LogsSignature.inputs)>>}
SignatureLists == {<<TransferSignature>>}
\* the tables a query selects from
Tables == {"txs", "transfer", "logs"}

\* formatAbi(abi)
formatAbi(abi) == [k \in 1..Len(abi) |-> AbiItem(abi[k].name, abi[k].inputs)]

\* inner(o): `cursor ??= o.cursor`, `signatures.push(...)`, and a builder whose
\* Kysely makes its Driver at once, with the cursor as it is now and with the
\* array `signatures` itself
inner(q, o) ==
  LET cursor == IF q.cursor = "none" THEN o.cursor ELSE q.cursor
  IN  [q EXCEPT !.cursor = cursor,
                !.signatures = @ \o o.signatures,
                !.builders = Append(@, [cursor |-> cursor, asked |-> o.cursor])]

\* prepareQuery(compiledQuery).signatures: the signatures of the Driver
\* whose name the query has after from or join
prepareQuery(q, table) ==
  SelectSeq(q.signatures, LAMBDA signature : Lower(signature.name) = table)

\* what the builders leave alone
BuilderFrame ==
  UNCHANGED <<id, kind, options, pc, count, lastError, shouldAbort, pending, aborted,
              served, obs, wire, rs, pr, sink, cq>>

\* builder.atCursor(cursor)
atCursor(b, cursor) ==
  /\ BuilderFrame
  /\ Len(qb.builders) < MaxBuilders
  /\ qb' = inner(qb, [cursor |-> cursor, signatures |-> <<>>])

\* builder.withAbi(abi)
withAbi(b, abi) ==
  /\ BuilderFrame
  /\ Len(qb.builders) < MaxBuilders
  /\ qb' = inner(qb, [cursor |-> "none", signatures |-> formatAbi(abi)])

\* builder.withSignatures(signatures)
withSignatures(b, signatures) ==
  /\ BuilderFrame
  /\ Len(qb.builders) < MaxBuilders
  /\ qb' = inner(qb, [cursor |-> "none", signatures |-> signatures])

\* Connection.executeQuery of a query made with builder b: client.fetch
executeQuery(b, table) ==
  /\ BuilderFrame
  /\ qb' = [qb EXCEPT !.passed = [method |-> "fetch", builder |-> b,
                               cursor |-> qb.builders[b].cursor,
                               signatures |-> prepareQuery(qb, table)]]

\* Connection.streamQuery of a query made with builder b: client.live
streamQuery(b, table) ==
  /\ BuilderFrame
  /\ qb' = [qb EXCEPT !.passed = [method |-> "live", builder |-> b,
                               cursor |-> qb.builders[b].cursor,
                               signatures |-> prepareQuery(qb, table)]]

\* QueryBuilder.from(client): inner() is called with no cursor and no signatures
InitBuilder ==
  /\ InitCalls(<<>>, {0})
  /\ wire = Body(<<>>, <<>>)
  /\ rs = NoRead
  /\ pr = NoParse
  /\ qb = inner(NoBuilders, [cursor |-> "none", signatures |-> <<>>])
  /\ sink = NoSink
  /\ cq = NoQuery

NextBuilder ==
  \/ \E b \in 1..Len(qb.builders), cursor \in BuilderCursors : atCursor(b, cursor)
  \/ \E b \in 1..Len(qb.builders), abi \in Abis : withAbi(b, abi)
  \/ \E b \in 1..Len(qb.builders), signatures \in SignatureLists :
       withSignatures(b, signatures)
  \/ \E b \in 1..Len(qb.builders), table \in Tables : executeQuery(b, table)
  \/ \E b \in 1..Len(qb.builders), table \in Tables : streamQuery(b, table)

SpecBuilder == InitBuilder /\ [][NextBuilder]_vars

(***************************************************************************)
(* The calls of a kind.                                                    *)
(***************************************************************************)
Fetches == {c \in Calls : kind[c] = "fetch"}
Lives == {c \in Calls : kind[c] = "live"}

\* C1: whenever live reopens the connection after a retryable failure, the
\* cursor sent on the new request is the cursor of the most recent batch yielded
\* so far in this invocation, and the caller-supplied cursor only if no batch
\* has been yielded yet.
C1_ReopenCarriesLatestCursor ==
  \A c \in Lives : obs[c].requests >= 2 => obs[c].sent = obs[c].resume

\* C2: whenever the token of a live invocation is cancelled (before live is first
\* iterated, while awaiting the response, while reading a chunk or during a
\* backoff sleep), the sequence ends without raising an error to the consumer.
\* Stated for the invocations that are allowed at least one attempt.
C2_CancelledLiveNeverRaises ==
  \A c \in Lives : (aborted[c] /\ options[c].retryCount >= 1) => pc[c] # "failed"

\* C3: a fetch call with retryCount = N >= 1 whose every request is answered
\* with a retryable status issues exactly N requests and then rejects with the
\* FetchRequestError of the last attempt; no fetch call issues more than N requests.
C3_ExhaustedFetchRaisesLast ==
  \A c \in Fetches :
    LET o == obs[c]
        N == options[c].retryCount
    IN  /\ o.requests <= N
        /\ (N >= 1 /\ o.steady) =>
             /\ pc[c] # "done"
             /\ pc[c] = "failed" =>
                  /\ o.requests = N
                  /\ o.raised.name = "FetchRequestError"
                  /\ o.raised.at = N
                  /\ o.raised = o.emitted

\* three requests answered 500, 500, 503 exhaust retryCount = 3
C3_Witness ==
  \E c \in Fetches :
    /\ pc[c] = "failed"
    /\ obs[c].steady
    /\ options[c].retryCount = 3
    /\ obs[c].requests = 3
    /\ obs[c].raised = FetchRequestError(503, 3)

\* C4: if no batch is ever yielded during a live invocation and every connection
\* attempt ends in a retryable failure, live raises the last error after at most
\* retryCount connection attempts.
C4_NoProgressBoundsAttempts ==
  \A c \in Lives : obs[c].yielded = 0 => obs[c].requests <= options[c].retryCount

\* C5: in live the attempt counter is reset to 0 only when at least one batch has
\* been yielded since the counter was last incremented; a payload that yields no
\* batch does not reset it.
C5_ResetOnlyAfterYield ==
  [][\A c \in Lives : (count[c] # 0 /\ count'[c] = 0) => obs'[c].fresh > 0]_vars

\* the errors the retry policy is specified to retry
SpecifiedRetryable(error) ==
  \/ error.name = "SseError" /\ error.type = "server"
  \/ error.name = "FetchRequestError" /\ error.status \in {408, 429}
  \/ error.name = "FetchRequestError" /\ error.status >= 500

\* C6: shouldRetry answers true exactly for an SseError of type 'server' and for
\* a FetchRequestError of status 408, 429 or >= 500, and false for every other
\* error: whenever a catch block consulted it, the call went on to retry exactly
\* for these errors.
C6_ShouldRetryExactly ==
  \A c \in Calls :
    obs[c].decision # "none" =>
      (obs[c].decision = "retry" <=> SpecifiedRetryable(obs[c].emitted))

\* live retried after 'server' payloads and then raised on status 499
C6_Witness ==
  \E c \in Lives :
    /\ obs[c].decision = "raise"
    /\ obs[c].emitted.name = "FetchRequestError"
    /\ obs[c].emitted.status = 499
    /\ obs[c].sleeps >= 2
    /\ lastError[c].name = "SseError"

\* C7: every backoff delay of fetch and of live is min(200 * 2^(n-1), 30000) ms
\* for a 1-indexed attempt number n >= 1, so it is at least 200 ms and at most
\* 30000 ms.
C7_BackoffWithinRange ==
  \A c \in Calls :
    pc[c] = "sleeping" =>
      /\ \E n \in 1..(options[c].retryCount + 1) :
           obs[c].delay = Min(200 * 2 ^ (n - 1), 30000)
      /\ obs[c].delay >= 200
      /\ obs[c].delay <= 30000

\* C8: when an attempt of live fails at network level without cancellation and
\* attempts remain, live emits an error event, sleeps the backoff and reopens
\* the connection instead of raising.
C8_NetworkFailureIsRetried ==
  \A c \in Lives :
    ~ /\ pc[c] = "failed"
      /\ obs[c].raised.name = "TypeError"
      /\ ~aborted[c]
      /\ Remaining(c)

\* a step in which readStream hands live a payload tagged {error: type}
DecodesError(c, type) == obs[c].decoded # type /\ obs'[c].decoded = type

\* the backoff timer of call c fires
Wakes(c) == pc[c] = "sleeping" /\ pc'[c] # "sleeping"

\* C9 as stated: a payload tagged 'client' makes live raise an SseError at
\* once with no further connection attempt; a payload tagged 'server' causes
\* one error event, a backoff and, when attempts remain, a reconnect.
C9_TaggedPayloads ==
  [][\A c \in Lives :
       /\ DecodesError(c, "client") =>
            /\ pc'[c] = "failed"
            /\ obs'[c].raised = SseError("client", obs[c].requests)
            /\ obs'[c].requests = obs[c].requests
       /\ DecodesError(c, "server") =>
            /\ pc'[c] = "sleeping"
            /\ obs'[c].errEvents = obs[c].errEvents + 1
            /\ obs'[c].emitted = SseError("server", obs[c].requests)
            /\ obs'[c].requests = obs[c].requests
       /\ (Wakes(c) /\ Remaining(c)) =>
            /\ pc'[c] = "awaitFetch"
            /\ obs'[c].requests = obs[c].requests + 1]_vars

\* C9 amended: the same, for a call whose abort listener has not run; once it
\* has run, a tagged payload ends the sequence with no error and no error event.
C9_TaggedPayloadsUnlessCancelled ==
  [][\A c \in Lives :
       /\ DecodesError(c, "client") =>
            IF shouldAbort[c]
            THEN pc'[c] = "done" /\ obs'[c].errEvents = obs[c].errEvents
            ELSE /\ pc'[c] = "failed"
                 /\ obs'[c].raised = SseError("client", obs[c].requests)
                 /\ obs'[c].requests = obs[c].requests
       /\ DecodesError(c, "server") =>
            IF shouldAbort[c]
            THEN pc'[c] = "done" /\ obs'[c].errEvents = obs[c].errEvents
            ELSE /\ pc'[c] = "sleeping"
                 /\ obs'[c].errEvents = obs[c].errEvents + 1
                 /\ obs'[c].emitted = SseError("server", obs[c].requests)
                 /\ obs'[c].requests = obs[c].requests
       /\ (Wakes(c) /\ Remaining(c)) =>
            /\ pc'[c] = "awaitFetch"
            /\ obs'[c].requests = obs[c].requests + 1]_vars

\* a batch is yielded on the connection opened after a 'server' payload
C9_Witness ==
  \E c \in Lives :
    /\ pc[c] = "yield"
    /\ obs[c].fresh = 1
    /\ obs[c].requests = 2
    /\ obs[c].emitted = SseError("server", 1)
    /\ obs[c].errEvents = 1
    /\ obs[c].sleeps = 1

\* C10: when an attempt of fetch fails with an error that shouldRetry rejects,
\* fetch re-raises that same error after exactly one request for that failure:
\* no backoff sleep and no further attempt follow.
C10_TerminalErrorRaisedAtOnce ==
  \A c \in Fetches :
    LET o == obs[c]
    IN  (o.emitted # NoError /\ ~ShouldRetry(o.emitted)) =>
          /\ pc[c] = "failed"
          /\ o.raised = o.emitted
          /\ o.raised.at = o.requests
          /\ o.errEvents = o.requests
          /\ o.sleeps = o.requests - 1

\* two retried failures, then status 404 on the third request, attempts remaining
C10_Witness ==
  \E c \in Fetches :
    /\ pc[c] = "failed"
    /\ obs[c].raised = FetchRequestError(404, 3)
    /\ obs[c].requests = 3
    /\ obs[c].sleeps = 2
    /\ options[c].retryCount > 3

\* C11: when the first k requests of a fetch call are answered with a
\* retryable status and request k+1 with a valid payload, k below retryCount,
\* fetch resolves and the sink has received exactly k error events, k+1
\* request events and k+1 response events (k is requests - 1 here: a fetch
\* call goes on after a failure only when shouldRetry accepted the failure).
C11_EventsOfResolvedFetch ==
  \A c \in Fetches :
    pc[c] = "done" =>
      LET o == obs[c]
          k == o.requests - 1
      IN  /\ k >= 0
          /\ k < options[c].retryCount
          /\ o.errEvents = k
          /\ o.reqEvents = k + 1
          /\ o.respEvents = k + 1
          /\ o.sleeps = k
          /\ o.raised = NoError
          /\ k = 0 => lastError[c] = NoError
          /\ k > 0 => /\ lastError[c].name = "FetchRequestError"
                      /\ lastError[c].status \in {408, 429, 500, 503}
                      /\ lastError[c].at = k
                      /\ o.emitted = lastError[c]

\* three retryable answers, then a valid payload on the fourth request
C11_Witness ==
  \E c \in Fetches :
    /\ pc[c] = "done"
    /\ obs[c].requests = 4
    /\ obs[c].errEvents = 3
    /\ obs[c].reqEvents = 4
    /\ obs[c].respEvents = 4
    /\ lastError[c] = FetchRequestError(429, 3)
    /\ options[c].retryCount > 4

\* C12 as stated: every event delivered to the sink carries the instance id
\* generated for the call that emitted it; two calls in flight together have
\* distinct ids, and no event of the call started earlier carries the id of
\* the call started later.
C12_EventsCarryOwnInstanceId ==
  /\ \A c \in Calls :
       obs[c].reqEvents > 0 => obs[c].tag = obs[c].instance
  /\ \A c, d \in Calls :
       (c # d /\ obs[c].instance # -1 /\ obs[d].instance # -1) =>
         obs[c].instance # obs[d].instance

\* call d takes a step
Steps(d) ==
  \/ pc'[d] # pc[d]
  \/ obs'[d] # obs[d]
  \/ served'[d] # served[d]

\* C13: each call keeps its own attempt counter and last error: a step of one
\* call leaves `count` and `lastError` of every other call as they were, and a
\* fetch call makes its own retryCount requests before it raises its last
\* error, whatever the other call fails with or resets.
C13_CountersPerCall ==
  /\ [](\A c \in Calls :
          /\ count[c] <= options[c].retryCount
          /\ kind[c] = "fetch" =>
                /\ count[c] = obs[c].requests
                /\ (pc[c] = "failed" /\ obs[c].decision # "raise") =>
                      /\ obs[c].requests = options[c].retryCount
                      /\ obs[c].raised = lastError[c]
                      /\ lastError[c].at = options[c].retryCount)
  /\ [][\A c, d \in Calls :
          (c # d /\ Steps(d)) =>
            /\ count'[c] = count[c]
            /\ lastError'[c] = lastError[c]
            /\ pc'[c] = pc[c]]_vars

\* the live call has yielded and reset its counter while the fetch call, started
\* first, used up its attempts and raised its own last error
C13_Witness ==
  /\ Calls = {"f", "l"}
  /\ pc["f"] = "failed"
  /\ obs["f"].raised = FetchRequestError(503, options["f"].retryCount)
  /\ obs["f"].instance < obs["l"].instance
  /\ count["l"] = 0
  /\ obs["l"].yielded > 0
  /\ pc["l"] = "scanning"

\* the lines of the frames of a body, in the order sent
RECURSIVE SentLines(_)
SentLines(frames) ==
  IF frames = <<>> THEN <<>> ELSE Head(frames) \o SentLines(Tail(frames))

\* the value a line carries to the consumer
Carried == [D1 |-> <<"1">>, D2 |-> <<"q", "e'", "q">>]

\* the values of the data lines of a body up to its first line that is not
\* JSON, and whether there is such a line
Sent(body) ==
  LET sent == SentLines(body.frames)
      bad == {i \in 1..Len(sent) : sent[i] = "BX"}
      stop == IF bad = {} THEN Len(sent) + 1 ELSE CHOOSE i \in bad : \A j \in bad : i <= j
      IsData(name) == name \in DOMAIN Carried
      data == SelectSeq(SubSeq(sent, 1, stop - 1), IsData)
  IN  [values |-> [i \in 1..Len(data) |-> Carried[data[i]]], invalid |-> bad # {}]

\* s is a prefix of t
IsPrefix(s, t) == Len(s) <= Len(t) /\ s = SubSeq(t, 1, Len(s))

\* C14: the values readStream yields depend on the bytes of the body only, not
\* on the chunks they arrive in: whatever the chunks (also ones that end inside
\* a character, inside a data line or between the two line feeds of a
\* separator), it yields the values of the data lines of the terminated frames,
\* in order, as it does when the whole body arrives as one chunk.
C14_ChunksDoNotMatter ==
  /\ IsPrefix(rs.out, Sent(wire).values)
  /\ rs.pc = "closed" => rs.out = Sent(wire).values /\ ~Sent(wire).invalid
  /\ (rs.pc = "raised" /\ rs.thrown.name = "SseError") =>
       rs.out = Sent(wire).values /\ Sent(wire).invalid

\* a body of two frames has been read to its end in chunks that ended inside a
\* character, inside a line and between the line feeds of a separator
C14_Witness ==
  /\ rs.pc = "closed"
  /\ rs.splits = {"character", "line", "separator"}
  /\ Len(rs.out) = 2
  /\ rs.out[2] = Carried.D2

\* C15: when a data line of a frame is not JSON, readStream cancels the reader
\* and raises an SseError of type 'client' whose cause is the parse failure;
\* the values of the data lines before it have been yielded, and no value of
\* that line or of a later line or frame is ever yielded.
C15_InvalidJsonStopsStream ==
  /\ Sent(wire).invalid => rs.pc # "closed"
  /\ Len(rs.out) <= Len(Sent(wire).values)
  /\ rs.thrown.name = "SseError" =>
       /\ rs.pc = "raised"
       /\ rs.thrown.type = "client"
       /\ rs.cause = <<"SyntaxError", "x">>
       /\ rs.cancelled = <<"Invalid JSON in data line", "Stream closed">>
       /\ rs.out = Sent(wire).values
       /\ Sent(wire).invalid

\* the frame `data:1`, `data:x`, `data: "e'" ` arrived after another frame, in
\* chunks that ended inside lines: two values were yielded, then the error raised
C15_Witness ==
  /\ rs.pc = "raised"
  /\ rs.thrown = SseError("client", 0)
  /\ wire.frames = <<<<"K", "D2">>, <<"D1", "BX", "D2">>>>
  /\ rs.out = <<Carried.D2, Carried.D1>>
  /\ rs.lines = <<LineText.D2>>
  /\ "line" \in rs.splits

\* C16: on every way out of readStream once it has started reading (the end of
\* the body, a data line that is not JSON, a failed read, and the consumer
\* leaving at a yield, which is also how live leaves when its loop body
\* raises) the reader has been cancelled; it is not cancelled before.
C16_ReaderCancelledOnExit ==
  /\ rs.pc \in {"closed", "raised", "returned"} =>
       /\ rs.cancelled # <<>>
       /\ rs.cancelled[Len(rs.cancelled)] = "Stream closed"
  /\ rs.pc \in {"idle", "read", "scan", "lines", "yield"} => rs.cancelled = <<>>

\* the consumer left after the first of the values of a body
C16_Witness ==
  /\ rs.pc = "returned"
  /\ Len(rs.out) = 1
  /\ Len(Sent(wire).values) > 1
  /\ rs.cancelled = <<"Stream closed">>
  /\ rs.thrown = NoError

\* C17 as stated: every value live yields is what Result.parse makes of the
\* decoded batch, the value fetch returns for the same batch (the cursor and
\* the rows as typed records keyed by column name), not the payload itself.
C17_LiveYieldsParsedResult ==
  /\ \A c \in Calls :
       obs[c].value # NoResult => obs[c].value = parse(obs[c].batch, ParseOptions(c))
  /\ \A c, d \in Calls :
       (obs[c].value # NoResult /\ obs[c].batch = obs[d].batch) =>
         obs[c].value = obs[d].value

\* a live call whose only connection delivered one frame with one result
\* batch, its rows empty, and then ended
OneEmptyBatchThenEnd(c) ==
  /\ pc[c] = "done"
  /\ obs[c].decoded = "end"
  /\ obs[c].requests = 1
  /\ served[c] = 1
  /\ obs[c].arrived = 1
  /\ Len(obs[c].payload) = 1
  /\ obs[c].payload[1].rows = <<>>

\* C18 as stated: given an endpoint that sends one frame with one result whose
\* rows are empty and then ends the body, live yields nothing and terminates
\* without error.
C18_EmptyBatchYieldsNothing ==
  \A c \in Lives :
    OneEmptyBatchThenEnd(c) => obs[c].yielded = 0 /\ obs[c].raised = NoError

\* C18 amended: given that endpoint, live yields exactly one value, the result
\* with its empty rows, and terminates without error.
C18_EmptyBatchIsYielded ==
  \A c \in Lives :
    OneEmptyBatchThenEnd(c) =>
      /\ obs[c].yielded = 1
      /\ obs[c].value = obs[c].payload[1]
      /\ obs[c].value.rows = <<>>
      /\ obs[c].raised = NoError
      /\ obs[c].errEvents = 0

\* the call has ended after that one frame
C18_Witness ==
  \E c \in Lives :
    /\ OneEmptyBatchThenEnd(c)
    /\ obs[c].yielded = 1
    /\ obs[c].lastYield = "c1"

\* C19: within one connection live yields the result batches in the order the
\* endpoint sent them: the batches of one decoded array in the order of the
\* array, the array of a later frame only after every batch of the earlier
\* one, none dropped, repeated or out of order.
C19_YieldsInServerOrder ==
  /\ [](\A c \in Lives :
          LET o == obs[c]
              k == Len(o.payload) - Len(pending[c])
          IN  /\ o.arrived = o.yielded + Len(pending[c])
              /\ pc[c] \in {"reading", "scanning"} => pending[c] = <<>>
              /\ pc[c] = "yield" =>
                   /\ k >= 1
                   /\ o.value = o.payload[k]
                   /\ pending[c] = SubSeq(o.payload, k + 1, Len(o.payload))
                   /\ o.fresh >= k)
  /\ [][\A c \in Lives :
          /\ obs'[c].yielded \in {obs[c].yielded, obs[c].yielded + 1}
          /\ obs'[c].arrived # obs[c].arrived => pending[c] = <<>>]_vars

\* the second batch of the second array of a connection is yielded, after a
\* first array of two other batches
C19_Witness ==
  \E c \in Lives :
    /\ pc[c] = "yield"
    /\ obs[c].payload = <<Raw("c2"), Raw("c1")>>
    /\ obs[c].value = Raw("c1")
    /\ pending[c] = <<>>
    /\ obs[c].fresh = 4
    /\ obs[c].arrived = 4
    /\ obs[c].requests = 1

\* C20: when the body ends (reader.read() resolves with done), live ends: it
\* yields no further value, raises no error, emits no error event and opens no
\* new connection, then or later.
C20_EndOfBodyEndsLive ==
  [][\A c \in Lives :
       /\ (obs[c].decoded # "end" /\ obs'[c].decoded = "end") =>
            /\ pc'[c] = "done"
            /\ obs'[c].yielded = obs[c].yielded
            /\ obs'[c].raised = NoError
            /\ obs'[c].errEvents = obs[c].errEvents
            /\ obs'[c].requests = obs[c].requests
       /\ pc[c] = "done" => pc'[c] = "done" /\ obs'[c] = obs[c]]_vars

\* the body of the second connection ended after three batches were yielded
C20_Witness ==
  \E c \in Lives :
    /\ pc[c] = "done"
    /\ obs[c].decoded = "end"
    /\ obs[c].requests = 2
    /\ obs[c].yielded = 3
    /\ obs[c].errEvents = 1
    /\ obs[c].raised = NoError

\* C21 as stated: every error a call raises to its caller was emitted as an
\* 'error' event by that call before, and the error raised is the very error
\* emitted; for every retryCount, also when the retries are used up and when
\* no attempt is made.
C21_RaisedErrorWasEmitted ==
  \A c \in Calls :
    pc[c] = "failed" =>
      /\ obs[c].errEvents >= 1
      /\ obs[c].raised = obs[c].emitted

\* the exchange of call c, pending with its token cancelled, is settled
SettlesCancelled(c) ==
  /\ pc[c] = "awaitFetch"
  /\ aborted[c]
  /\ pc'[c] # "awaitFetch"

\* C22: when the cancellation token of a fetch call fires while the exchange
\* is pending, fetch rejects with the cancellation error and makes no further
\* request; the cancellation error is never retried.
C22_CancelledFetchRejects ==
  /\ [](\A c \in Fetches :
          obs[c].emitted.name = "AbortError" =>
            /\ pc[c] = "failed"
            /\ obs[c].raised = obs[c].emitted
            /\ obs[c].raised.at = obs[c].requests
            /\ obs[c].decision = "raise"
            /\ obs[c].sleeps = obs[c].requests - 1)
  /\ [][\A c \in Fetches :
          SettlesCancelled(c) =>
            /\ pc'[c] = "failed"
            /\ obs'[c].raised = ForeignError("AbortError", obs[c].requests)
            /\ obs'[c].requests = obs[c].requests
            /\ obs'[c].sleeps = obs[c].sleeps]_vars

\* the token fired during the third exchange, after two retried failures
C22_Witness ==
  \E c \in Fetches :
    /\ pc[c] = "failed"
    /\ aborted[c]
    /\ obs[c].raised = ForeignError("AbortError", 3)
    /\ obs[c].requests = 3
    /\ obs[c].errEvents = 3
    /\ options[c].retryCount > 3

\* the raw result of the parse call with only row i
OnlyRow(i) == [pr.raw EXCEPT !.rows = <<pr.raw.rows[i]>>]

\* C23: for every raw result for which parse returns, result.rows has the
\* length of raw.rows, record i is what parse makes of raw row i alone (the
\* order of the input is kept), and result.cursor is raw.cursor.
C23_RowsAndCursorPreserved ==
  pr.pc = "returned" =>
    /\ Len(pr.result.rows) = Len(pr.raw.rows)
    /\ pr.result.cursor = pr.raw.cursor
    /\ \A i \in 1..Len(pr.raw.rows) :
         pr.result.rows[i] = parse(OnlyRow(i), pr.options).rows[1]

\* parse returned two records that differ, of a table of signatures
C23_Witness ==
  /\ pr.pc = "returned"
  /\ pr.options.query = QueryTransfer
  /\ pr.options.signatures # NoSignatures
  /\ Len(pr.result.rows) = 2
  /\ pr.result.rows[1] # pr.result.rows[2]
  /\ pr.result.cursor = "c2"

\* C24 as stated: for every raw result for which parse returns, each record
\* has exactly one entry per column of raw.columns, also when two columns
\* have one name, and its keys are the column names in the order of
\* raw.columns.
C24_OneEntryPerColumn ==
  pr.pc = "returned" =>
    \A i \in 1..Len(pr.result.rows) :
      /\ Len(pr.result.rows[i]) = Len(pr.raw.columns)
      /\ \A j \in 1..Len(pr.raw.columns) :
           pr.result.rows[i][j].key = pr.raw.columns[j].name

\* the decode rule C25 specifies for column j: for a fixed schema table the
\* fixed schema rule alone; otherwise the signature rule of the table and
\* column, else the fixed schema rule of the column name, else none
SpecifiedType(raw, opts, j) ==
  LET name == raw.columns[j].name
      tableName == TableName(name, opts.query)
      signed == SignatureType(Signatures(opts), tableName, name)
  IN  IF tableName \in standardTables THEN StandardType(name)
      ELSE IF signed # NoRule THEN signed
      ELSE StandardType(name)

\* the value a record holds under a key
Entry(row, key) == row[CHOOSE k \in 1..Len(row) : row[k].key = key].value

\* the columns whose value a record holds: the last of each name
Kept(raw) ==
  {j \in 1..Len(raw.columns) :
     \A k \in (j + 1)..Len(raw.columns) : raw.columns[k].name # raw.columns[j].name}

\* C25 as stated: the value parse returns for a column is the raw value decoded
\* by the rule resolved in this order: for the table txs, logs or blocks the
\* fixed schema rule alone, signatures ignored; otherwise the signature rule
\* of that table and column if there is one, else the fixed schema rule of
\* the column name, else the raw value itself.
C25_RuleResolvedInOrder ==
  pr.pc = "returned" =>
    \A i \in 1..Len(pr.raw.rows) :
      \A j \in Kept(pr.raw) :
        Entry(pr.result.rows[i], pr.raw.columns[j].name) =
          IF SpecifiedType(pr.raw, pr.options, j) = NoRule
          THEN pr.raw.rows[i][j]
          ELSE TypeParse(SpecifiedType(pr.raw, pr.options, j), pr.raw.rows[i][j])

\* the type of the signature input that gives column j its rule, NoType when
\* the rule of the column is not from a signature
SignedType(raw, opts, j) ==
  LET name == raw.columns[j].name
      tableName == TableName(name, opts.query)
  IN  IF tableName = "" \/ tableName \in standardTables THEN NoType
      ELSE InputType(Signatures(opts), tableName, name)

\* C26 as stated: for a signature parameter of type intN[] or uintN[], each
\* element is decoded by the width rule of intN and uintN: a Number for
\* N <= 48, an arbitrary-precision integer for N > 48 or no N.
C26_ArrayElementsByWidth ==
  pr.pc = "returned" =>
    \A i \in 1..Len(pr.raw.rows) :
      \A j \in Kept(pr.raw) :
        LET type == SignedType(pr.raw, pr.options, j)
            items == Entry(pr.result.rows[i], pr.raw.columns[j].name).items
        IN  (type.base \in {"int", "uint"} /\ type.array) =>
              \A k \in 1..Len(items) :
                items[k] = IF type.bits # 0 /\ type.bits <= 48
                           THEN ToNumber(pr.raw.rows[i][j].items[k])
                           ELSE ToBigInt(pr.raw.rows[i][j].items[k])

\* C27: if decoding one value of a raw result fails, parse raises and hands no
\* rows to its caller; inside fetch the error is emitted once and raised
\* after exactly one request for that result: no backoff sleep and no
\* further attempt follow.
C27_DecodeFailureAbortsFetch ==
  \A c \in Fetches :
    LET o == obs[c]
    IN  (o.batch # NoResult /\ Failing(o.batch, ParseOptions(c)) # {}) =>
          /\ pc[c] = "failed"
          /\ o.value = NoResult
          /\ o.raised = ForeignError("ZodError", o.requests)
          /\ o.emitted = o.raised
          /\ o.decision = "raise"
          /\ o.errEvents = o.requests
          /\ o.sleeps = o.requests - 1

\* two retried failures, then a result whose second row has a value that
\* cannot be decoded, attempts remaining
C27_Witness ==
  \E c \in Fetches :
    /\ pc[c] = "failed"
    /\ obs[c].batch = Undecodable
    /\ Failing(obs[c].batch, ParseOptions(c)) = {<<2, 2>>}
    /\ obs[c].raised = ForeignError("ZodError", 3)
    /\ obs[c].requests = 3
    /\ options[c].retryCount > 3

\* C28: when the server answers a request of fetch with an ok status and an
\* empty JSON array, fetch rejects with the BaseError 'No results returned'
\* after exactly one request for that answer: the error is emitted once, no
\* backoff sleep and no further attempt follow.
C28_NoResultsRejects ==
  \A c \in Fetches :
    LET o == obs[c]
    IN  o.empty =>
          /\ pc[c] = "failed"
          /\ o.raised = BaseError("No results returned", o.requests)
          /\ o.emitted = o.raised
          /\ o.decision = "raise"
          /\ o.errEvents = o.requests
          /\ o.respEvents = o.requests
          /\ o.sleeps = o.requests - 1
          /\ o.value = NoResult

\* the first request is answered with an empty array, attempts remaining
C28_Witness ==
  \E c \in Fetches :
    /\ pc[c] = "failed"
    /\ obs[c].empty
    /\ obs[c].requests = 1
    /\ obs[c].errEvents = 1
    /\ obs[c].sleeps = 0
    /\ options[c].retryCount > 1

\* the text C29 specifies for a { chainId, blockNumber } cursor
PositionText(position) ==
  IF position = [chainId |-> 8453, blockNumber |-> 12] THEN "8453-12" ELSE "1-0"

\* C29: every request one fetch call issues, the first and every retry, is a
\* POST whose body is a JSON array of exactly one object: it has the query,
\* it has a cursor only when a cursor was supplied (a { chainId, blockNumber }
\* cursor as '<chainId>-<blockNumber>'), and it has signatures only when
\* signatures were supplied; the body is the same for all attempts of a call.
C29_RequestBodyOfEveryAttempt ==
  /\ [](\A c \in Fetches :
          obs[c].requests >= 1 =>
            /\ obs[c].method = "POST"
            /\ Len(obs[c].body) = 1
            /\ obs[c].body[1].query = options[c].query
            /\ obs[c].body[1].cursor =
                 IF options[c].cursor = "none" THEN <<>>
                 ELSE IF options[c].cursor = "object"
                 THEN <<PositionText(options[c].position[1])>>
                 ELSE <<options[c].cursor>>
            /\ obs[c].body[1].signatures = options[c].signatures)
  /\ [][\A c \in Fetches :
          (obs[c].requests >= 1 /\ obs'[c].requests > obs[c].requests) =>
            /\ obs'[c].body = obs[c].body
            /\ obs'[c].method = obs[c].method]_vars

\* the second request of a call with a { chainId, blockNumber } cursor, with
\* signatures and with a method of its own among the options
C29_Witness ==
  \E c \in Fetches :
    /\ obs[c].requests = 2
    /\ pc[c] = "awaitFetch"
    /\ options[c].method = "GET"
    /\ options[c].position = <<[chainId |-> 8453, blockNumber |-> 12]>>
    /\ options[c].signatures = <<<<TransferSignature>>>>
    /\ obs[c].body[1].cursor = <<"8453-12">>

\* C30 as stated: whatever atCursor, withSignatures and withAbi calls were
\* made on the builders of one QueryBuilder.from(client), a query executed on
\* the builder atCursor(c) returned is passed to client.fetch or client.live
\* with cursor c, also when a cursor was set before on the same or on
\* another builder.
C30_AtCursorSetsCursor ==
  qb.passed.method # "none" =>
    LET builder == qb.builders[qb.passed.builder]
    IN  builder.asked # "none" => qb.passed.cursor = builder.asked

InitSink ==
  /\ InitCalls(<<>>, {0})
  /\ wire = Body(<<>>, <<>>)
  /\ rs = NoRead
  /\ pr = NoParse
  /\ qb = NoBuilders
  /\ sink = NoSink
  /\ cq = NoQuery

NextSink ==
  \/ \E type \in Types, handler \in Handlers : on(type, handler)
  \/ \E type \in Types, handler \in Handlers \cup {""} : off(type, handler)
  \/ \E type \in Types : emit(type)

SpecSink == InitSink /\ [][NextSink]_vars

\* C31 as stated: if the cancellation token of a live invocation fires while
\* live is in a backoff sleep, live emits no further 'request' event and
\* calls the global fetch no more.
C31_NoRequestAfterCancelledSleep ==
  [][\A c \in Lives :
       (pc[c] = "sleeping" /\ aborted[c] /\ shouldAbort[c]) =>
         /\ obs'[c].reqEvents = obs[c].reqEvents
         /\ obs'[c].requests = obs[c].requests]_vars

\* the orders in which the events of one attempt may have been emitted so far
Orders ==
  {<<>>, <<"request", "fetch">>, <<"request", "fetch", "response">>,
   <<"request", "fetch", "error">>, <<"request", "fetch", "response", "error">>}

\* C32: within one fetch or live call the events of an attempt are emitted in
\* the order request, response, error, the request event before the call of
\* the global fetch; and an attempt starts only after the error event of the
\* attempt before it.  Every 'request', 'response' and 'error' event the call
\* counts is an entry of that order.
C32_EventsInAttemptOrder ==
  /\ [](\A c \in Calls : obs[c].events \in Orders)
  /\ [][\A c \in Calls :
          LET o == obs[c]
              n == obs'[c]
          IN  /\ n.reqEvents > o.reqEvents =>
                   /\ n.events = <<"request", "fetch">>
                   /\ n.requests = o.requests + 1
                   /\ o.requests >= 1 => o.events[Len(o.events)] = "error"
              /\ n.requests > o.requests => n.reqEvents = o.reqEvents + 1
              /\ n.respEvents > o.respEvents =>
                   /\ n.events \in {Append(o.events, "response"),
                                    o.events \o <<"response", "error">>}
                   /\ n.reqEvents = o.reqEvents
              /\ n.errEvents > o.errEvents =>
                   /\ n.events \in {Append(o.events, "error"),
                                    o.events \o <<"response", "error">>}
                   /\ n.reqEvents = o.reqEvents
              /\ n.events # o.events =>
                   \/ n.reqEvents > o.reqEvents
                   \/ n.respEvents > o.respEvents
                   \/ n.errEvents > o.errEvents]_vars

\* the second attempt of a live call has been answered and has failed, after
\* a first attempt that yielded a batch
C32_Witness ==
  \E c \in Lives :
    /\ obs[c].requests = 2
    /\ obs[c].yielded >= 1
    /\ obs[c].events = <<"request", "fetch", "response", "error">>

\* the text readStream has decoded so far, and the number of frames of the
\* body it has cut off its buffer
Arrived == Glyphs(SubSeq(Bytes, 1, rs.pos - Len(rs.held)))
FramesCut ==
  Cardinality({k \in 1..Len(wire.frames) :
                 Len(BodyText(SubSeq(wire.frames, 1, k), <<>>)) <=
                   Len(Arrived) - Len(rs.buffer)})

\* the values of the data lines among the lines of these names
ValuesOf(names) ==
  LET IsData(name) == name \in DOMAIN Carried
      data == SelectSeq(names, IsData)
  IN  [i \in 1..Len(data) |-> Carried[data[i]]]

\* C33: while readStream is in the line loop of a complete frame, the lines
\* it still has to visit are the last lines of that frame, in order, and the
\* values it has yielded are the values of the data lines of the frames
\* before and of the lines of this frame it has visited, in line order: every
\* data line gives one value, any other line gives none.  No line visited is
\* a data line that is not JSON: such a line ends the stream.
C33_DataLinesOfFrameInOrder ==
  rs.pc \in {"lines", "yield"} =>
    /\ FramesCut >= 1
    /\ LET frame == wire.frames[FramesCut]
           visited == Len(frame) - Len(rs.lines)
           names == SentLines(SubSeq(wire.frames, 1, FramesCut - 1)) \o
                    SubSeq(frame, 1, visited)
       IN  /\ visited >= 0
           /\ rs.lines = [i \in 1..Len(rs.lines) |-> LineText[frame[visited + i]]]
           /\ \A i \in 1..Len(names) : names[i] # "BX"
           /\ rs.out = ValuesOf(names)
           /\ rs.pc = "yield" => visited >= 1 /\ frame[visited] \in DOMAIN Carried

\* after a frame of two data lines around a comment, which gave two values
\* in line order, all lines of a frame without a data line have been visited
\* and nothing more was yielded
C33_Witness ==
  /\ wire.frames = <<<<"D2", "K", "D1">>, <<"K">>>>
  /\ rs.pc = "lines"
  /\ rs.lines = <<>>
  /\ FramesCut = 2
  /\ rs.out = <<Carried.D2, Carried.D1>>

\* the columns of the raw result that parse decodes with z.bigint()
BigIntColumns ==
  {j \in 1..Len(pr.raw.columns) : pr.raw.columns[j].name \in {"gas_limit", "gas_used", "num"}}

\* C34 as stated: when the columns gas_limit, gas_used and num of a query on
\* the blocks table arrive as JSON numbers, parse accepts them and returns
\* each as the arbitrary-precision integer of that number.
C34_WireNumbersAccepted ==
  ( /\ pr.pc # "called"
    /\ pr.options.query = QueryBlocks
    /\ BigIntColumns # {}
    /\ \A i \in 1..Len(pr.raw.rows) :
         \A j \in BigIntColumns : pr.raw.rows[i][j].type = "number" )
  => /\ pr.pc = "returned"
     /\ \A i \in 1..Len(pr.raw.rows) :
          \A j \in BigIntColumns :
            Entry(pr.result.rows[i], pr.raw.columns[j].name) = JsBigInt(pr.raw.rows[i][j].v)

\* C35 as stated: deriving a builder with atCursor, withSignatures or withAbi
\* leaves every builder obtained before unchanged: the cursor and the
\* signatures it passes to the client for a query on any table are the same
\* after the step as before it.
C35_DerivingLeavesBuildersAlone ==
  [][\A b \in 1..Len(qb.builders) :
       /\ qb'.builders[b].cursor = qb.builders[b].cursor
       /\ \A table \in Tables : prepareQuery(qb', table) = prepareQuery(qb, table)]_vars

\* C36 as stated: after off(kind, h) the handler h is not invoked for any
\* later event of that kind, also when h was registered for several kinds or
\* several times, and after off(kind) no handler registered for that kind
\* before is invoked for it: an emit invokes no handler through a type for
\* which it was turned off and not registered again.
C36_OffStopsHandler == sink.called \cap sink.offed = {}

\* C37: readStream never takes text of the body that follows its last
\* separator out of the buffer, so no line of a trailing frame that is not
\* ended by a blank line is visited or yielded; when the body ends, the
\* values yielded are those of the data lines of the terminated frames, the
\* text of the trailing frame is still in the buffer, it is dropped with the
\* generator and no error is raised for it.
C37_TrailingFrameNeverYielded ==
  wire.tail # <<>> =>
    /\ Len(Arrived) - Len(rs.buffer) <= Len(BodyText(wire.frames, <<>>))
    /\ Len(rs.out) <= Len(Sent(wire).values)
    /\ rs.pc = "closed" =>
         /\ rs.buffer = wire.tail
         /\ rs.lines = <<>>
         /\ rs.out = Sent(wire).values
         /\ rs.thrown = NoError
         /\ rs.cancelled = <<"Stream closed">>

\* a body of a terminated frame and the unterminated line `data:1` has ended:
\* the value of the frame was yielded, `data:1` is what the buffer holds
C37_Witness ==
  /\ rs.pc = "closed"
  /\ wire.frames = <<<<"K", "D2">>>>
  /\ wire.tail = LineText.D1
  /\ rs.out = <<Carried.D2>>
  /\ rs.buffer = LineText.D1

\* C38: fetch sleeps once after every attempt that failed with an error
\* shouldRetry accepts, the last attempt included: the sleep after attempt i
\* is the i-th sleep and lasts min(200 * 2^(i-1), 30000) ms, an attempt is
\* under way only after as many sleeps as attempts failed before it, and a
\* call with retryCount = N whose attempts all failed that way rejects after
\* N requests and N sleeps, the last of min(200 * 2^(N-1), 30000) ms.
C38_SleepAfterEveryRetryableFailure ==
  \A c \in Fetches :
    LET o == obs[c]
        N == options[c].retryCount
    IN  /\ pc[c] = "awaitFetch" => o.sleeps = o.requests - 1
        /\ pc[c] = "sleeping" =>
             /\ o.sleeps = o.requests
             /\ o.sleeps = count[c]
             /\ o.sleeps <= N
             /\ o.delay = Min(BaseDelay * 2 ^ (o.sleeps - 1), MaxDelay)
        /\ (pc[c] = "failed" /\ ShouldRetry(o.raised)) =>
             /\ N >= 1
             /\ o.requests = N
             /\ o.errEvents = N
             /\ o.sleeps = N
             /\ o.delay = Min(BaseDelay * 2 ^ (N - 1), MaxDelay)

\* a call with retryCount 9 has rejected with the status 503 of its ninth
\* answer after nine sleeps, the last one of the full 30000 ms
C38_Witness ==
  \E c \in Fetches :
    /\ pc[c] = "failed"
    /\ options[c].retryCount = 9
    /\ obs[c].raised = FetchRequestError(503, 9)
    /\ obs[c].sleeps = 9
    /\ obs[c].delay = MaxDelay

InitPrepare ==
  /\ InitCalls(<<>>, {0})
  /\ wire = Body(<<>>, <<>>)
  /\ rs = NoRead
  /\ pr = NoParse
  /\ qb = NoBuilders
  /\ sink = NoSink
  /\ cq \in {[pc |-> "called", sql |-> Sql(Len(parameters)), parameters |-> parameters,
               query |-> <<>>] : parameters \in SeqUpTo(Texts, MaxParams)}

NextPrepare == PrepareCall

SpecPrepare == InitPrepare /\ [][NextPrepare]_vars

\* the text in which every placeholder $k of Sql(n) is parameter k
RECURSIVE Filled(_)
Filled(parameters) ==
  IF Len(parameters) <= 1 THEN (IF parameters = <<>> THEN <<>> ELSE parameters[1])
  ELSE Filled(SubSeq(parameters, 1, Len(parameters) - 1)) \o <<",">> \o
       parameters[Len(parameters)]

\* C39 as stated: for a compiled query with parameters p1..pn, also for
\* n >= 10, the query prepareQuery returns has the text of parameter k in
\* the place of every placeholder $k, and no other parameter there.
C39_EachPlaceholderItsParameter ==
  cq.pc = "returned" => cq.query = Filled(cq.parameters)

====
